---- MODULE Spec2Model ----
(***************************************************************************)
(* A model of the README update/merge engine of readmi                     *)
(* (src/src/readmeUpdater.js) and of the update flow that drives it        *)
(* (src/index.js, updateReadme).                                           *)
(*                                                                         *)
(* A JavaScript string is modelled as a sequence of one-character strings, *)
(* so that every regular expression of the source is modelled by what it   *)
(* matches, character by character.  null / undefined / '' (the falsy      *)
(* strings) are all modelled by the empty sequence <<>>.                   *)
(***************************************************************************)
EXTENDS Naturals, Sequences, FiniteSets, TLC

VARIABLES
  readme,       \* the text of README.md (readmeAnalysis.content, then the text written back)
  previous,     \* the text of README.md before the last operation
  newContent,   \* the newly generated document handed to the merge
  options,      \* the options of mergeReadmeContent
  projectInfo,  \* the live project metadata: version, scripts, dependencies
  result,       \* the value returned by the last analysis operation
  op,           \* the last operation applied
  runs,         \* how many operations have been applied
  fileExists,   \* whether README.md exists (existsSync)
  args,         \* the command-line arguments (process.argv.slice(2))
  config,       \* the stored configuration: apiKey, preferredModel, preferredLanguage
  api,          \* the models whose probe call succeeds
  probes,       \* the probe calls made so far, in order
  language,     \* the language of the run
  updateChoice, \* the kind of update asked of updateReadme: version, full, selective
  writes,       \* the texts written to README.md by the current call of updateReadme
  console,      \* the messages of success printed by updateReadme so far
  pc            \* the position of init, selectModel and updateReadme: where, and the loop index

cliVarsButPc == <<fileExists, args, config, api, probes, language, updateChoice, writes, console>>

\* the state of the command line and of the model selection
cliVars == <<fileExists, args, config, api, probes, language, updateChoice, writes, console, pc>>

vars == <<readme, previous, newContent, options, projectInfo, result, op, runs,
          fileExists, args, config, api, probes, language, updateChoice, writes, console, pc>>

(***************************************************************************)
(* Bounds of the model.                                                    *)
(***************************************************************************)
\* how many tokens a README of the version-patch specification is made of
MaxVersionTokens == 2
\* how many times in a row the version-only update is applied
MaxVersionRuns == 2
\* how many lines the existing README of the merge specification has
MaxExistingLines == 3
\* how many lines the newly generated document of the merge specification has
MaxNewLines == 2
\* how many lines a document of the parse specification has
MaxParseLines == 3
\* how many lines the old and the new document of the diff specification have
MaxDiffOldLines == 2
MaxDiffNewLines == 3
MaxDiffCaseOldLines == 3
MaxDiffCaseNewLines == 2
\* how many tokens a README of the staleness specification is made of
MaxDetectTokens == 2
\* how many lines a README of the analysis specification has
MaxAnalyzeLines == 2
\* how many lines the two documents of a merge case have
MaxCaseExistingLines == 2
MaxCaseNewLines == 2
MaxTitleExistingLines == 2
MaxTitleNewLines == 2
\* how many lines the two documents of the classifier specification have
MaxClassifyLines == 2
\* how many operations on the stored configuration are applied in a row
MaxConfigRuns == 4

(***************************************************************************)
(* Characters and the built-in string functions of JavaScript.             *)
(***************************************************************************)
\* the characters \s matches and String.prototype.trim strips
WhiteSpace == {" ", "\t", "\n", "\r"}

\* the characters . does not match
LineTerminators == {"\n", "\r"}

Digit == {"0", "1", "2", "3", "4", "5", "6", "7", "8", "9"}

UpperCase == <<"A", "B", "C", "D", "E", "F", "G", "H", "I", "J", "K", "L", "M",
               "N", "O", "P", "Q", "R", "S", "T", "U", "V", "W", "X", "Y", "Z">>

LowerCase == <<"a", "b", "c", "d", "e", "f", "g", "h", "i", "j", "k", "l", "m",
               "n", "o", "p", "q", "r", "s", "t", "u", "v", "w", "x", "y", "z">>

Range(f) == {f[i] : i \in DOMAIN f}

\* \w of a regular expression: [A-Za-z0-9_]
WordChar == Range(UpperCase) \cup Range(LowerCase) \cup Digit \cup {"_"}

Min(S) == CHOOSE x \in S : \A y \in S : x <= y

Max(S) == CHOOSE x \in S : \A y \in S : y <= x

toLowerCaseChar(c) ==
  IF c \in Range(UpperCase)
  THEN LowerCase[CHOOSE i \in DOMAIN UpperCase : UpperCase[i] = c]
  ELSE c

toLowerCase(s) == [i \in 1..Len(s) |-> toLowerCaseChar(s[i])]

\* String.prototype.trim
trim(s) ==
  LET keep == {i \in 1..Len(s) : s[i] \notin WhiteSpace}
  IN  IF keep = {} THEN <<>> ELSE SubSeq(s, Min(keep), Max(keep))

\* whether pattern p occurs in s at position i
occursAt(s, i, p) ==
  /\ i >= 1
  /\ i + Len(p) - 1 <= Len(s)
  /\ \A k \in 1..Len(p) : s[i + k - 1] = p[k]

\* String.prototype.includes
includes(s, p) == \E i \in 1..(Len(s) + 1) : occursAt(s, i, p)

\* content.split('\n')
RECURSIVE split(_)
split(s) ==
  LET nl == {i \in 1..Len(s) : s[i] = "\n"}
  IN  IF nl = {} THEN <<s>>
      ELSE <<SubSeq(s, 1, Min(nl) - 1)>> \o split(SubSeq(s, Min(nl) + 1, Len(s)))

\* lines.join('\n')
RECURSIVE join(_)
join(lines) ==
  IF Len(lines) = 0 THEN <<>>
  ELSE IF Len(lines) = 1 THEN lines[1]
  ELSE lines[1] \o <<"\n">> \o join(Tail(lines))

\* the concatenation of a sequence of strings
RECURSIVE concat(_)
concat(parts) == IF Len(parts) = 0 THEN <<>> ELSE parts[1] \o concat(Tail(parts))

\* the length of the longest run of characters of class C that starts at s[i]
runLength(s, i, C) ==
  LET stops == {j \in i..Len(s) : s[j] \notin C}
  IN  IF i > Len(s) THEN 0
      ELSE IF stops = {} THEN Len(s) + 1 - i
      ELSE Min(stops) - i

\* the length of the longest run of characters other than c that starts at s[i]
runLengthNot(s, i, c) ==
  LET stops == {j \in i..Len(s) : s[j] = c}
  IN  IF i > Len(s) THEN 0
      ELSE IF stops = {} THEN Len(s) + 1 - i
      ELSE Min(stops) - i

\* \b: a word boundary between s[i - 1] and s[i]
wordBoundary(s, i) ==
  LET before == i > 1 /\ i - 1 <= Len(s) /\ s[i - 1] \in WordChar
      after  == i >= 1 /\ i <= Len(s) /\ s[i] \in WordChar
  IN  before # after

(***************************************************************************)
(* The version patcher: updateVersionInReadme.                             *)
(***************************************************************************)
\* the length of the match of \d+\.\d+\.\d+ at s[i], 0 when there is none
tripleLength(s, i) ==
  LET a  == runLength(s, i, Digit)
      b  == runLength(s, i + a + 1, Digit)
      c  == runLength(s, i + a + 1 + b + 1, Digit)
  IN  IF /\ a > 0
         /\ occursAt(s, i + a, <<".">>)
         /\ b > 0
         /\ occursAt(s, i + a + 1 + b, <<".">>)
         /\ c > 0
      THEN a + 1 + b + 1 + c
      ELSE 0

\* the literal head of the npm version badge of the first regular expression
npmBadgeHead ==
  <<"!", "[", "n", "p", "m", " ", "v", "e", "r", "s", "i", "o", "n", "]", "(",
    "h", "t", "t", "p", "s", ":", "/", "/", "i", "m", "g", ".", "s", "h", "i",
    "e", "l", "d", "s", ".", "i", "o", "/", "n", "p", "m", "/", "v", "/">>

versionWord == <<"v", "e", "r", "s", "i", "o", "n">>

\* /!\[npm version\]\(https:\/\/img\.shields\.io\/npm\/v\/[^)]+\)/ at s[i]
badgeMatchLength(s, i) ==
  LET n == runLengthNot(s, i + Len(npmBadgeHead), ")")
  IN  IF /\ occursAt(s, i, npmBadgeHead)
         /\ n > 0
         /\ occursAt(s, i + Len(npmBadgeHead) + n, <<")">>)
      THEN Len(npmBadgeHead) + n + 1
      ELSE 0

\* the length of the separator [:\s]+ of /version[:\s]+.../i at s[i], 0 when
\* the word version (in any letter case) and a separator do not start there
versionWordLength(s, i) ==
  LET sep == runLength(s, i + Len(versionWord), {":"} \cup WhiteSpace)
  IN  IF /\ i + Len(versionWord) - 1 <= Len(s)
         /\ toLowerCase(SubSeq(s, i, i + Len(versionWord) - 1)) = versionWord
         /\ sep > 0
      THEN Len(versionWord) + sep
      ELSE 0

\* /version[:\s]+\d+\.\d+\.\d+/i at s[i]
versionMatchLength(s, i) ==
  LET w == versionWordLength(s, i)
      t == tripleLength(s, i + w)
  IN  IF w > 0 /\ t > 0 THEN w + t ELSE 0

\* /\bv\d+\.\d+\.\d+\b/ at s[i]
vTokenMatchLength(s, i) ==
  LET t == tripleLength(s, i + 1)
  IN  IF /\ occursAt(s, i, <<"v">>)
         /\ wordBoundary(s, i)
         /\ t > 0
         /\ wordBoundary(s, i + 1 + t)
      THEN 1 + t
      ELSE 0

\* the length of the match of one of the three regular expressions at s[i]
matchLength(regex, s, i) ==
  CASE regex = "badge"   -> badgeMatchLength(s, i)
    [] regex = "version" -> versionMatchLength(s, i)
    [] regex = "vToken"  -> vTokenMatchLength(s, i)

\* String.prototype.replace with a global regular expression: every match,
\* left to right, is replaced; the replacement is not scanned again
RECURSIVE replaceFrom(_, _, _, _)
replaceFrom(regex, s, i, replacement) ==
  LET starts == {j \in i..Len(s) : matchLength(regex, s, j) > 0}
  IN  IF starts = {} THEN SubSeq(s, i, Len(s))
      ELSE SubSeq(s, i, Min(starts) - 1) \o replacement
           \o replaceFrom(regex, s, Min(starts) + matchLength(regex, s, Min(starts)),
                          replacement)

replaceAll(regex, s, replacement) == replaceFrom(regex, s, 1, replacement)

updateVersionInReadme(content, newVersion) ==
  replaceAll("vToken",
    replaceAll("version",
      replaceAll("badge", content, npmBadgeHead \o newVersion \o <<")">>),
      versionWord \o <<" ">> \o newVersion),
    <<"v">> \o newVersion)

(***************************************************************************)
(* The markdown section parser: extractSections and getHeaderContent.      *)
(***************************************************************************)
\* the k-th smallest element of a finite set of numbers
kth(S, k) == CHOOSE x \in S : Cardinality({y \in S : y < x}) = k - 1

\* the elements of a finite set of numbers in increasing order
sorted(S) == [k \in 1..Cardinality(S) |-> kth(S, k)]

\* the number of '#' characters a line starts with
hashCount(line) == runLength(line, 1, {"#"})

\* the splits of /^(#{1,6})\s+(.+)$/ on a line: the lengths k of \s+ that leave
\* a non-empty rest of the line in which . matches every character
headerSplits(line) ==
  LET h == hashCount(line)
      w == runLength(line, h + 1, WhiteSpace)
  IN  IF h < 1 \/ h > 6 THEN {}
      ELSE {k \in 1..w :
              /\ h + k < Len(line)
              /\ \A j \in (h + k + 1)..Len(line) : line[j] \notin LineTerminators}

\* line.match(/^(#{1,6})\s+(.+)$/) is not null
headerMatches(line) == headerSplits(line) # {}

\* headerMatch[2]: \s+ is greedy, (.+) is the rest of the line
headerGroup2(line) ==
  SubSeq(line, hashCount(line) + Max(headerSplits(line)) + 1, Len(line))

\* /^#{1,6}\s+/.test(line)
headingStart(line) ==
  /\ hashCount(line) >= 1
  /\ hashCount(line) <= 6
  /\ runLength(line, hashCount(line) + 1, WhiteSpace) >= 1

\* a plausible slip: the section under way is pushed at the end of the text
\* without the test that there is one
extractSectionsAlwaysPush(content) ==
  LET lines == split(content)
      heads == {i \in 1..Len(lines) : headerMatches(lines[i])}
      start == sorted(heads)
      stop(k) == IF k < Len(start) THEN start[k + 1] - 1 ELSE Len(lines)
  IN  IF heads = {}
      THEN << [ level |-> 0, title |-> <<>>, startLine |-> 0, rawTitle |-> <<>>,
                content |-> <<>>, endLine |-> Len(lines) - 1 ] >>
      ELSE [k \in 1..Len(start) |->
             [ level     |-> hashCount(lines[start[k]]),
               title     |-> trim(headerGroup2(lines[start[k]])),
               startLine |-> start[k] - 1,
               rawTitle  |-> lines[start[k]],
               content   |-> trim(join(SubSeq(lines, start[k] + 1, stop(k)))),
               endLine   |-> stop(k) - 1 ]]

\* the sections of a document, in document order; lines are numbered from 0
extractSections(content) ==
  LET lines == split(content)
      heads == {i \in 1..Len(lines) : headerMatches(lines[i])}
      start == sorted(heads)
      stop(k) == IF k < Len(start) THEN start[k + 1] - 1 ELSE Len(lines)
  IN  [k \in 1..Len(start) |->
        [ level     |-> hashCount(lines[start[k]]),
          title     |-> trim(headerGroup2(lines[start[k]])),
          startLine |-> start[k] - 1,
          rawTitle  |-> lines[start[k]],
          content   |-> trim(join(SubSeq(lines, start[k] + 1, stop(k)))),
          endLine   |-> stop(k) - 1 ]]

\* headerLines of getHeaderContent: the lines before the first line that
\* starts like a heading
headerLines(content) ==
  LET lines == split(content)
      heads == {i \in 1..Len(lines) : headingStart(lines[i])}
  IN  SubSeq(lines, 1, IF heads = {} THEN Len(lines) ELSE Min(heads) - 1)

\* the text before the first line that starts like a heading, trimmed, and two newlines
getHeaderContent(content) ==
  LET lines == split(content)
      heads == {i \in 1..Len(lines) : headingStart(lines[i])}
      n     == IF heads = {} THEN Len(lines) ELSE Min(heads) - 1
  IN  trim(join(SubSeq(lines, 1, n))) \o <<"\n", "\n">>

(***************************************************************************)
(* Title normalization and the section classifier.                         *)
(***************************************************************************)
\* the characters of s at the positions K, in order
pick(s, K) == [k \in 1..Cardinality(K) |-> s[kth(K, k)]]

\* title.toLowerCase().replace(/[^a-z0-9\s]/g, '').replace(/\s+/g, ' ').trim()
normalizeTitle(title) ==
  LET lower    == toLowerCase(title)
      kept     == pick(lower, {i \in 1..Len(lower) :
                     lower[i] \in Range(LowerCase) \cup Digit \cup WhiteSpace})
      firsts   == {i \in 1..Len(kept) :
                     kept[i] \notin WhiteSpace \/ i = 1 \/ kept[i - 1] \notin WhiteSpace}
      squeezed == pick([i \in 1..Len(kept) |->
                          IF kept[i] \in WhiteSpace THEN " " ELSE kept[i]], firsts)
  IN  trim(squeezed)

\* the standard vocabulary of isCustomSection
standardSections ==
  { <<"i", "n", "s", "t", "a", "l", "l", "a", "t", "i", "o", "n">>,
    <<"i", "n", "s", "t", "a", "l", "l">>,
    <<"g", "e", "t", "t", "i", "n", "g", " ", "s", "t", "a", "r", "t", "e", "d">>,
    <<"u", "s", "a", "g", "e">>,
    <<"f", "e", "a", "t", "u", "r", "e", "s">>,
    <<"r", "e", "q", "u", "i", "r", "e", "m", "e", "n", "t", "s">>,
    <<"p", "r", "e", "r", "e", "q", "u", "i", "s", "i", "t", "e", "s">>,
    <<"c", "o", "n", "t", "r", "i", "b", "u", "t", "i", "n", "g">>,
    <<"l", "i", "c", "e", "n", "s", "e">>,
    <<"d", "o", "c", "u", "m", "e", "n", "t", "a", "t", "i", "o", "n">>,
    <<"e", "x", "a", "m", "p", "l", "e", "s">>,
    <<"a", "p", "i">>,
    <<"c", "o", "n", "f", "i", "g", "u", "r", "a", "t", "i", "o", "n">>,
    <<"t", "e", "s", "t", "i", "n", "g">>,
    <<"d", "e", "p", "l", "o", "y", "m", "e", "n", "t">>,
    <<"s", "u", "p", "p", "o", "r", "t">>,
    <<"c", "h", "a", "n", "g", "e", "l", "o", "g">>,
    <<"r", "o", "a", "d", "m", "a", "p">>,
    <<"a", "c", "k", "n", "o", "w", "l", "e", "d", "g", "m", "e", "n", "t", "s">>,
    <<"a", "u", "t", "h", "o", "r", "s">>,
    <<"f", "a", "q">>,
    <<"t", "r", "o", "u", "b", "l", "e", "s", "h", "o", "o", "t", "i", "n", "g">>,
    <<"d", "e", "s", "c", "r", "i", "p", "t", "i", "o", "n">>,
    <<"a", "b", "o", "u", "t">>,
    <<"c", "o", "m", "m", "a", "n", "d", "s">>,
    <<"o", "p", "t", "i", "o", "n", "s">>,
    <<"h", "o", "w", " ", "i", "t", " ", "w", "o", "r", "k", "s">> }

\* no vocabulary entry contains the normalized title or is contained in it
isCustomSection(normalizedTitle) ==
  ~ \E std \in standardSections :
      includes(normalizedTitle, std) \/ includes(std, normalizedTitle)

(***************************************************************************)
(* The merge engine: mergeReadmeContent and updateSpecificSections.        *)
(***************************************************************************)
\* false for an empty update list; otherwise whether the title is not in the list
shouldPreserveSection(normalizedTitle, sectionsToUpdate) ==
  IF Len(sectionsToUpdate) = 0 THEN FALSE
  ELSE ~ \E i \in DOMAIN sectionsToUpdate :
           normalizeTitle(sectionsToUpdate[i]) = normalizedTitle

\* existingSections.find(s => normalizeTitle(s.title) === normalizedTitle):
\* the index of the first match, 0 when there is none
findSection(sections, normalizedTitle) ==
  LET hits == {i \in DOMAIN sections : normalizeTitle(sections[i].title) = normalizedTitle}
  IN  IF hits = {} THEN 0 ELSE Min(hits)

\* the first loop of mergeReadmeContent: one merged section for every section
\* of the new document, in new-document order
newDocumentSections(existingContent, generated, opts) ==
  LET existingSections == extractSections(existingContent)
      newSections      == extractSections(generated)
  IN  [i \in DOMAIN newSections |->
        LET normalizedTitle == normalizeTitle(newSections[i].title)
            existingMatch   == findSection(existingSections, normalizedTitle)
        IN  IF /\ existingMatch # 0
               /\ shouldPreserveSection(normalizedTitle, opts.sectionsToUpdate)
            THEN [ title   |-> existingSections[existingMatch].rawTitle,
                   content |-> existingSections[existingMatch].content,
                   source  |-> "existing" ]
            ELSE [ title   |-> newSections[i].rawTitle,
                   content |-> newSections[i].content,
                   source  |-> "new" ]]

\* the set processedSectionTitles after the first loop
processedSectionTitles(generated) ==
  LET newSections == extractSections(generated)
  IN  {normalizeTitle(newSections[i].title) : i \in DOMAIN newSections}

\* a plausible slip: the test on processedSectionTitles lost its negation
preservedCustomSectionsOfProcessed(existingContent, generated) ==
  LET existingSections == extractSections(existingContent)
      processed == processedSectionTitles(generated)
      customAt ==
        {i \in DOMAIN existingSections :
          /\ normalizeTitle(existingSections[i].title) \in processed
          /\ isCustomSection(normalizeTitle(existingSections[i].title))}
  IN  [k \in 1..Cardinality(customAt) |->
        [ title   |-> existingSections[kth(customAt, k)].rawTitle,
          content |-> existingSections[kth(customAt, k)].content,
          source  |-> "custom" ]]

\* the second loop of mergeReadmeContent: the existing sections that are not
\* processed and are custom, in existing-document order
preservedCustomSections(existingContent, generated) ==
  LET existingSections == extractSections(existingContent)
      processed == processedSectionTitles(generated)
      customAt ==
        {i \in DOMAIN existingSections :
          /\ normalizeTitle(existingSections[i].title) \notin processed
          /\ isCustomSection(normalizeTitle(existingSections[i].title))}
  IN  [k \in 1..Cardinality(customAt) |->
        [ title   |-> existingSections[kth(customAt, k)].rawTitle,
          content |-> existingSections[kth(customAt, k)].content,
          source  |-> "custom" ]]

\* a plausible slip: the preserved custom sections are put first
mergedSectionsCustomFirst(existingContent, generated, opts) ==
  IF opts.preserveCustomSections
  THEN preservedCustomSections(existingContent, generated)
         \o newDocumentSections(existingContent, generated, opts)
  ELSE newDocumentSections(existingContent, generated, opts)

\* the sections of the merged document, in order, each with its provenance
mergedSections(existingContent, generated, opts) ==
  IF opts.preserveCustomSections
  THEN newDocumentSections(existingContent, generated, opts)
         \o preservedCustomSections(existingContent, generated)
  ELSE newDocumentSections(existingContent, generated, opts)

\* '\n' + section.title + '\n\n' + section.content + '\n' for every merged section
renderSections(sections) ==
  concat([i \in DOMAIN sections |->
    <<"\n">> \o sections[i].title \o <<"\n", "\n">> \o sections[i].content \o <<"\n">>])

\* the header of the merged document
finalHeader(existingContent, generated, opts) ==
  IF opts.preserveHeader /\ getHeaderContent(existingContent) # <<>>
  THEN getHeaderContent(existingContent)
  ELSE getHeaderContent(generated)

\* a plausible slip: the assembled text is returned without trim
mergeReadmeContentUntrimmed(existingContent, generated, opts) ==
  finalHeader(existingContent, generated, opts)
    \o renderSections(mergedSections(existingContent, generated, opts)) \o <<"\n">>

mergeReadmeContent(existingContent, generated, opts) ==
  trim(finalHeader(existingContent, generated, opts)
         \o renderSections(mergedSections(existingContent, generated, opts)))
    \o <<"\n">>

updateSpecificSections(existingContent, generated, sectionsToUpdate) ==
  mergeReadmeContent(existingContent, generated,
    [preserveCustomSections |-> TRUE, preserveHeader |-> TRUE,
     sectionsToUpdate |-> sectionsToUpdate])

(***************************************************************************)
(* The clean-up of the generated text: postProcessReadme.  A character     *)
(* outside ASCII is written by its code point.                             *)
(***************************************************************************)
\* the attribution footer appended to every processed text
footer ==
  <<"\n", "\n", "-", "-", "-", "\n", "\n", "*", "*", "M", "a", "d", "e", " ",
    "w", "i", "t", "h", " ", "U+2764", "U+FE0F", " ", "u", "s", "i", "n",
    "g", " ", "[", "R", "e", "a", "d", "M", "I", "]", "(", "h", "t", "t",
    "p", "s", ":", "/", "/", "g", "i", "t", "h", "u", "b", ".", "c", "o",
    "m", "/", "j", "a", "y", "a", "n", "i", "t", "h", "u", "/", "r", "e",
    "a", "d", "m", "i", ")", " ", "b", "y", " ", "j", "a", "y", "a", "n",
    "i", "t", "h", "u", "*", "*", "\n">>

\* the footer without the line breaks around it: the rule and the attribution
footerText == trim(footer)

\* /\n(#+)\s/ at s[j]: the length of the match, 0 when there is none
headingBreakLength(s, j) ==
  LET h == runLength(s, j + 1, {"#"})
  IN  IF /\ occursAt(s, j, <<"\n">>)
         /\ h > 0
         /\ j + 1 + h <= Len(s)
         /\ s[j + 1 + h] \in WhiteSpace
      THEN 1 + h + 1
      ELSE 0

\* .replace(/\n(#+)\s/g, '\n\n$1 ')
RECURSIVE spaceHeadingsFrom(_, _)
spaceHeadingsFrom(s, i) ==
  LET starts == {j \in i..Len(s) : headingBreakLength(s, j) > 0}
      j      == Min(starts)
      n      == headingBreakLength(s, j)
  IN  IF starts = {} THEN SubSeq(s, i, Len(s))
      ELSE SubSeq(s, i, j - 1) \o <<"\n", "\n">> \o SubSeq(s, j + 1, j + n - 2) \o <<" ">>
             \o spaceHeadingsFrom(s, j + n)

\* /\n-\s/ at s[j]
bulletAt(s, j) ==
  /\ occursAt(s, j, <<"\n", "-">>)
  /\ j + 2 <= Len(s)
  /\ s[j + 2] \in WhiteSpace

\* .replace(/\n-\s/g, '\n\u2022 ')
RECURSIVE replaceBulletsFrom(_, _)
replaceBulletsFrom(s, i) ==
  LET starts == {j \in i..Len(s) : bulletAt(s, j)}
  IN  IF starts = {} THEN SubSeq(s, i, Len(s))
      ELSE SubSeq(s, i, Min(starts) - 1) \o <<"\n", "U+2022", " ">>
             \o replaceBulletsFrom(s, Min(starts) + 3)

\* .replace(/\n{3,}/g, '\n\n')
RECURSIVE collapseBlankLinesFrom(_, _)
collapseBlankLinesFrom(s, i) ==
  LET starts == {j \in i..Len(s) : runLength(s, j, {"\n"}) >= 3}
  IN  IF starts = {} THEN SubSeq(s, i, Len(s))
      ELSE SubSeq(s, i, Min(starts) - 1) \o <<"\n", "\n">>
             \o collapseBlankLinesFrom(s, Min(starts) + runLength(s, Min(starts), {"\n"}))

\* postProcessReadme of a text without a code fence and without a heading
\* Contents (the steps on fences and on the table of contents leave such a
\* text as it is): headings get a blank line before them, dashes of list
\* items become bullets, runs of blank lines are collapsed, the text is
\* trimmed and the footer is appended; every step works on the value of
\* the step before it
postProcessReadme(content) ==
  CHOOSE processed \in
    { trimmedAgain \o footer :
        trimmedAgain \in { trim(collapsedAgain) :
          collapsedAgain \in { collapseBlankLinesFrom(trimmed, 1) :
            trimmed \in { trim(collapsed) :
              collapsed \in { collapseBlankLinesFrom(bulleted, 1) :
                bulleted \in { replaceBulletsFrom(spaced, 1) :
                  spaced \in { spaceHeadingsFrom(start, 1) :
                    start \in { trim(content) } } } } } } } } : TRUE

(***************************************************************************)
(* The diff summary: createDiffSummary.                                    *)
(***************************************************************************)
\* the elements of a sequence at the positions K, in order
RECURSIVE titlesAt(_, _)
titlesAt(sections, K) ==
  IF K = {} THEN <<>>
  ELSE <<sections[Min(K)].title>> \o titlesAt(sections, K \ {Min(K)})

createDiffSummary(existingContent, generated) ==
  LET existingSections == extractSections(existingContent)
      newSections      == extractSections(generated)
      existingTitles   == {normalizeTitle(existingSections[i].title) : i \in DOMAIN existingSections}
      newTitles        == {normalizeTitle(newSections[i].title) : i \in DOMAIN newSections}
      existingOf(i)    ==
        existingSections[findSection(existingSections, normalizeTitle(newSections[i].title))]
      matched          == {i \in DOMAIN newSections :
                             findSection(existingSections, normalizeTitle(newSections[i].title)) # 0}
  IN  [ added     |-> titlesAt(newSections, {i \in DOMAIN newSections :
                        normalizeTitle(newSections[i].title) \notin existingTitles}),
        removed   |-> titlesAt(existingSections, {i \in DOMAIN existingSections :
                        normalizeTitle(existingSections[i].title) \notin newTitles}),
        modified  |-> titlesAt(newSections, {i \in matched :
                        trim(existingOf(i).content) # trim(newSections[i].content)}),
        unchanged |-> titlesAt(newSections, {i \in matched :
                        trim(existingOf(i).content) = trim(newSections[i].content)}) ]

(***************************************************************************)
(* The metadata extractor (version) and the staleness detector.            *)
(***************************************************************************)
\* content.match(/version[:\s]+(\d+\.\d+\.\d+)/i) || content.match(/v(\d+\.\d+\.\d+)/):
\* group 1 of the leftmost match of the first expression, else of the second,
\* else null
extractVersion(content) ==
  LET byWord  == {i \in 1..Len(content) : versionMatchLength(content, i) > 0}
      byV     == {i \in 1..Len(content) :
                    occursAt(content, i, <<"v">>) /\ tripleLength(content, i + 1) > 0}
      wordAt  == Min(byWord) + versionWordLength(content, Min(byWord))
  IN  IF byWord # {}
      THEN SubSeq(content, wordAt, wordAt + tripleLength(content, wordAt) - 1)
      ELSE IF byV # {}
      THEN SubSeq(content, Min(byV) + 1, Min(byV) + tripleLength(content, Min(byV) + 1))
      ELSE <<>>

\* /!\[([^\]]*)\]\(([^)]+)\)/ at s[i]: the lengths of the alt text and of the url
badgeAltLength(s, i) == runLengthNot(s, i + 2, "]")

badgeUrlLength(s, i) == runLengthNot(s, i + 4 + badgeAltLength(s, i), ")")

imageMatchLength(s, i) ==
  LET a == badgeAltLength(s, i)
      u == badgeUrlLength(s, i)
  IN  IF /\ occursAt(s, i, <<"!", "[">>)
         /\ occursAt(s, i + 2 + a, <<"]", "(">>)
         /\ u > 0
         /\ occursAt(s, i + 4 + a + u, <<")">>)
      THEN 4 + a + u + 1
      ELSE 0

\* /\[([^\]]+)\]\(([^)]+)\)/ at s[i]: the lengths of the text and of the url
linkTextLength(s, i) == runLengthNot(s, i + 1, "]")

linkUrlLength(s, i) == runLengthNot(s, i + 3 + linkTextLength(s, i), ")")

linkMatchLength(s, i) ==
  LET t == linkTextLength(s, i)
      u == linkUrlLength(s, i)
  IN  IF /\ occursAt(s, i, <<"[">>)
         /\ t > 0
         /\ occursAt(s, i + 1 + t, <<"]", "(">>)
         /\ u > 0
         /\ occursAt(s, i + 3 + t + u, <<")">>)
      THEN 3 + t + u + 1
      ELSE 0

\* the matches of a global regular expression found by repeated exec: the
\* start of every match, left to right, each search resuming behind the last match
RECURSIVE execAll(_, _, _)
execAll(regex, s, i) ==
  LET starts == {j \in i..Len(s) :
                   IF regex = "image" THEN imageMatchLength(s, j) > 0
                                      ELSE linkMatchLength(s, j) > 0}
      first  == Min(starts)
      length == IF regex = "image" THEN imageMatchLength(s, first)
                                   ELSE linkMatchLength(s, first)
  IN  IF starts = {} THEN <<>>
      ELSE <<first>> \o execAll(regex, s, first + length)

\* metadata.badges of extractMetadata
extractBadges(content) ==
  LET at == execAll("image", content, 1)
  IN  [k \in DOMAIN at |->
        [ alt |-> SubSeq(content, at[k] + 2, at[k] + 1 + badgeAltLength(content, at[k])),
          url |-> SubSeq(content, at[k] + 4 + badgeAltLength(content, at[k]),
                         at[k] + 3 + badgeAltLength(content, at[k])
                           + badgeUrlLength(content, at[k])) ]]

\* String.prototype.startsWith
startsWith(s, p) == occursAt(s, 1, p)

\* the elements of a sequence at the positions K, in order
RECURSIVE selectAt(_, _)
selectAt(seq, K) ==
  IF K = {} THEN <<>>
  ELSE <<seq[Min(K)]>> \o selectAt(seq, K \ {Min(K)})

\* metadata.links of extractMetadata: the links whose url starts with http or #
extractLinks(content) ==
  LET at  == execAll("link", content, 1)
      all == [k \in DOMAIN at |->
               [ text |-> SubSeq(content, at[k] + 1, at[k] + linkTextLength(content, at[k])),
                 url  |-> SubSeq(content, at[k] + 3 + linkTextLength(content, at[k]),
                                 at[k] + 2 + linkTextLength(content, at[k])
                                   + linkUrlLength(content, at[k])) ]]
  IN  selectAt(all, {k \in DOMAIN all :
                       \/ startsWith(all[k].url, <<"h", "t", "t", "p">>)
                       \/ startsWith(all[k].url, <<"#">>)})

tableOfContents ==
  <<"t", "a", "b", "l", "e", " ", "o", "f", " ", "c", "o", "n", "t", "e", "n", "t", "s">>

\* /##?\s+Table of Contents/i.test(content)
hasTableOfContents(content) ==
  \E i \in 1..Len(content), h \in 1..2 :
    LET w == runLength(content, i + h, WhiteSpace)
    IN  /\ occursAt(content, i, [k \in 1..h |-> "#"])
        /\ w > 0
        /\ occursAt(toLowerCase(content), i + h + w, tableOfContents)

extractMetadata(content) ==
  [ badges             |-> extractBadges(content),
    version            |-> extractVersion(content),
    links              |-> extractLinks(content),
    hasTableOfContents |-> hasTableOfContents(content) ]

\* the standard vocabulary of identifyCustomSections
analysisStandardSections ==
  {std \in standardSections :
     std \notin { <<"d", "e", "s", "c", "r", "i", "p", "t", "i", "o", "n">>,
                  <<"a", "b", "o", "u", "t">>,
                  <<"c", "o", "m", "m", "a", "n", "d", "s">>,
                  <<"o", "p", "t", "i", "o", "n", "s">>,
                  <<"h", "o", "w", " ", "i", "t", " ", "w", "o", "r", "k", "s">> }}

\* the sections of level 1 or 2 whose lower-cased title neither contains a
\* vocabulary entry nor is contained in one
identifyCustomSections(content) ==
  LET sections == extractSections(content)
      customAt ==
        {i \in DOMAIN sections :
          /\ ~ \E std \in analysisStandardSections :
                 \/ includes(toLowerCase(sections[i].title), std)
                 \/ includes(std, toLowerCase(sections[i].title))
          /\ sections[i].level <= 2}
  IN  [k \in 1..Cardinality(customAt) |->
        [ title     |-> sections[kth(customAt, k)].title,
          content   |-> sections[kth(customAt, k)].content,
          startLine |-> sections[kth(customAt, k)].startLine,
          endLine   |-> sections[kth(customAt, k)].endLine ]]

\* the value null of JavaScript where an analysis is expected
null == [null |-> TRUE]

\* a plausible slip: a missing file is read as an empty one
analyzeExistingReadmeOrEmpty(file) ==
  LET content == IF file.exists THEN file.content ELSE <<>>
  IN  [ exists         |-> TRUE,
        content        |-> content,
        sections       |-> extractSections(content),
        metadata       |-> extractMetadata(content),
        customSections |-> identifyCustomSections(content) ]

\* analyzeExistingReadme of a file: null when the file does not exist
analyzeExistingReadme(file) ==
  IF ~ file.exists THEN null
  ELSE [ exists         |-> TRUE,
         content        |-> file.content,
         sections       |-> extractSections(file.content),
         metadata       |-> extractMetadata(file.content),
         customSections |-> identifyCustomSections(file.content) ]

importantScripts ==
  << <<"t", "e", "s", "t">>, <<"b", "u", "i", "l", "d">>,
     <<"s", "t", "a", "r", "t">>, <<"d", "e", "v">> >>

npmRun == <<"n", "p", "m", " ", "r", "u", "n", " ">>

dependenciesWord == <<"d", "e", "p", "e", "n", "d", "e", "n", "c", "i", "e", "s">>

\* the value of a decimal digit
digitValue(c) == CHOOSE n \in 0..9 : <<"0", "1", "2", "3", "4", "5", "6", "7", "8", "9">>[n + 1] = c

\* parseInt of a string of digits
RECURSIVE parseInt(_)
parseInt(digits) ==
  IF Len(digits) = 0 THEN 0
  ELSE 10 * parseInt(SubSeq(digits, 1, Len(digits) - 1)) + digitValue(digits[Len(digits)])

\* the length of the match of /(\d+)\s+dependencies/i at s[i], 0 when there is none
depMentionLength(s, i) ==
  LET d == runLength(s, i, Digit)
      w == runLength(s, i + d, WhiteSpace)
  IN  IF /\ d > 0
         /\ w > 0
         /\ i + d + w + Len(dependenciesWord) - 1 <= Len(s)
         /\ toLowerCase(SubSeq(s, i + d + w, i + d + w + Len(dependenciesWord) - 1))
              = dependenciesWord
      THEN d + w + Len(dependenciesWord)
      ELSE 0

\* a plausible slip: the project version is not tested for presence
versionIssuesUnguarded(readmeAnalysis, info) ==
  IF /\ readmeAnalysis.metadata.version # <<>>
     /\ readmeAnalysis.metadata.version # info.version
  THEN << [ type |-> "version", severity |-> "medium",
            current |-> readmeAnalysis.metadata.version,
            expected |-> info.version ] >>
  ELSE <<>>

\* the rule on the version of detectOutdatedInfo
versionIssues(readmeAnalysis, info) ==
  IF /\ readmeAnalysis.metadata.version # <<>>
     /\ info.version # <<>>
     /\ readmeAnalysis.metadata.version # info.version
  THEN << [ type |-> "version", severity |-> "medium",
            current |-> readmeAnalysis.metadata.version,
            expected |-> info.version ] >>
  ELSE <<>>

\* a plausible slip: only the mention npm run <script> is looked for
scriptMissingNpmRunOnly(readmeContent, info, script) ==
  /\ script \in DOMAIN info.scripts
  /\ info.scripts[script] # <<>>
  /\ ~ includes(readmeContent, npmRun \o script)

\* whether the rule on scripts fires for one script name
scriptMissing(readmeContent, info, script) ==
  /\ script \in DOMAIN info.scripts
  /\ info.scripts[script] # <<>>
  /\ ~ includes(readmeContent, npmRun \o script)
  /\ ~ includes(readmeContent, script)

\* the rule on scripts of detectOutdatedInfo, in the order of importantScripts
RECURSIVE scriptIssues(_, _, _)
scriptIssues(readmeContent, info, k) ==
  IF k > Len(importantScripts) THEN <<>>
  ELSE (IF scriptMissing(readmeContent, info, importantScripts[k])
        THEN << [ type |-> "missing-script", severity |-> "low",
                  script |-> importantScripts[k] ] >>
        ELSE <<>>)
       \o scriptIssues(readmeContent, info, k + 1)

\* a plausible slip: every mention of a dependency count is compared, not the first
dependencyIssuesAnyMention(readmeContent, info) ==
  LET depCount == Cardinality(info.dependencies)
      mentions == {i \in 1..Len(readmeContent) : depMentionLength(readmeContent, i) > 0}
      stale    == {i \in mentions :
                     parseInt(SubSeq(readmeContent, i, i + runLength(readmeContent, i, Digit) - 1))
                       # depCount}
  IN  IF stale # {}
      THEN << [ type |-> "dependency-count", severity |-> "low",
                current |-> SubSeq(readmeContent, Min(stale),
                                   Min(stale) + runLength(readmeContent, Min(stale), Digit) - 1),
                expected |-> depCount ] >>
      ELSE <<>>

\* the rule on the dependency count of detectOutdatedInfo: the leftmost match
\* of /(\d+)\s+dependencies/i is compared with the number of dependencies
dependencyIssues(readmeContent, info) ==
  LET depCount   == Cardinality(info.dependencies)
      mentions   == {i \in 1..Len(readmeContent) : depMentionLength(readmeContent, i) > 0}
      depMention == SubSeq(readmeContent, Min(mentions),
                           Min(mentions) + runLength(readmeContent, Min(mentions), Digit) - 1)
  IN  IF mentions # {} /\ parseInt(depMention) # depCount
      THEN << [ type |-> "dependency-count", severity |-> "low",
                current |-> depMention, expected |-> depCount ] >>
      ELSE <<>>

\* a plausible slip: the rules after one that fired are not evaluated
detectOutdatedInfoEarlyExit(readmeAnalysis, info) ==
  IF readmeAnalysis = null \/ ~ readmeAnalysis.exists THEN <<>>
  ELSE IF versionIssues(readmeAnalysis, info) # <<>>
       THEN versionIssues(readmeAnalysis, info)
       ELSE scriptIssues(toLowerCase(readmeAnalysis.content), info, 1)
              \o dependencyIssues(toLowerCase(readmeAnalysis.content), info)

detectOutdatedInfo(readmeAnalysis, info) ==
  IF readmeAnalysis = null \/ ~ readmeAnalysis.exists THEN <<>>
  ELSE versionIssues(readmeAnalysis, info)
         \o scriptIssues(toLowerCase(readmeAnalysis.content), info, 1)
         \o dependencyIssues(toLowerCase(readmeAnalysis.content), info)

\* the sections that may need an update, by the titles of the README
identifySectionsToUpdate(readmeAnalysis, info) ==
  IF readmeAnalysis = null \/ ~ readmeAnalysis.exists THEN <<>>
  ELSE LET sections == [i \in DOMAIN readmeAnalysis.sections |->
                         toLowerCase(readmeAnalysis.sections[i].title)]
           some(word) == \E i \in DOMAIN sections : includes(sections[i], word)
       IN  (IF some(<<"i", "n", "s", "t", "a", "l", "l">>)
            THEN << [name |-> "Installation", priority |-> "medium"] >> ELSE <<>>)
           \o (IF some(<<"f", "e", "a", "t", "u", "r", "e">>)
               THEN << [name |-> "Features", priority |-> "high"] >> ELSE <<>>)
           \o (IF some(<<"u", "s", "a", "g", "e">>)
               THEN << [name |-> "Usage", priority |-> "high"] >> ELSE <<>>)

(***************************************************************************)
(* Inputs of the version-patch specification.                              *)
(***************************************************************************)
\* the pieces a README with version tokens is made of
VersionTokens ==
  { <<"v", "1", ".", "0", ".", "0">>,
    <<"V", "e", "r", "s", "i", "o", "n", ":", " ", "1", ".", "0", ".", "0">>,
    <<"v", "e", "r", "s", "i", "o", "n", " ", "2", ".", "0", ".", "0">>,
    npmBadgeHead \o <<"p", "k", "g", ")">>,
    <<" ">>,
    <<"\n">>,
    <<"x">>,
    <<".", "1">> }

\* the texts made of at most n tokens
RECURSIVE TextsOf(_, _)
TextsOf(tokens, n) ==
  IF n = 0 THEN {<<>>}
  ELSE LET shorter == TextsOf(tokens, n - 1)
       IN  shorter \cup {t \o u : t \in shorter, u \in tokens}

\* the version strings of package.json: a plain triple (twice), a four-part
\* version and a pre-release version
ProjectVersions ==
  { <<"1", ".", "2", ".", "3">>,
    <<"2", ".", "0", ".", "0">>,
    <<"1", ".", "2", ".", "3", ".", "4">>,
    <<"1", ".", "2", ".", "3", "-", "r", "c">> }

\* whether v is a plain X.Y.Z triple
IsTriple(v) == Len(v) > 0 /\ tripleLength(v, 1) = Len(v)

NoOptions == [preserveCustomSections |-> TRUE, preserveHeader |-> FALSE,
              sectionsToUpdate |-> <<>>]

NoProject == [version |-> <<>>, scripts |-> << >>, dependencies |-> {}]

\* the configuration after construction (defaults); a key, a model name and
\* a language code are strings of TLA+, and null, like '' and a deleted
\* entry, is the empty one
NoConfig == [apiKey |-> "", preferredModel |-> "", preferredLanguage |-> "en"]

\* before init and outside selectModel
Idle == [at |-> "idle", i |-> 0]

\* README.md exists, no command line, no model selection under way
NoCli ==
  /\ fileExists = TRUE
  /\ args = <<>>
  /\ config = NoConfig
  /\ api = {}
  /\ probes = <<>>
  /\ language = "en"
  /\ updateChoice = ""
  /\ writes = <<>>
  /\ console = <<>>
  /\ pc = Idle

InitVersion ==
  /\ readme \in TextsOf(VersionTokens, MaxVersionTokens)
  /\ previous = <<>>
  /\ newContent = <<>>
  /\ options = NoOptions
  /\ projectInfo \in {[NoProject EXCEPT !.version = v] : v \in ProjectVersions}
  /\ result = <<>>
  /\ op = "none"
  /\ runs = 0
  /\ NoCli

\* updateReadme with updateChoice = 'version': the README is patched and written back
UpdateVersion ==
  /\ runs < MaxVersionRuns
  /\ readme' = updateVersionInReadme(readme, projectInfo.version)
  /\ previous' = readme
  /\ op' = "version"
  /\ runs' = runs + 1
  /\ UNCHANGED <<newContent, options, projectInfo, result>>
  /\ UNCHANGED cliVars

NextVersion == UpdateVersion

SpecVersion == InitVersion /\ [][NextVersion]_vars

(***************************************************************************)
(* Inputs and actions of the merge specification.                          *)
(***************************************************************************)
\* the documents made of at most n lines
DocsOf(lines, n) == {join(ls) : ls \in UNION {[1..k -> lines] : k \in 0..n}}

\* the lines of an existing README: text, a custom heading (also with trailing
\* white space) and a standard heading
ExistingLines ==
  { <<"o", "l", "d">>,
    <<"#", "#", " ", "N", "o", "t", "e", "s">>,
    <<"#", "#", " ", "N", "o", "t", "e", "s", " ">>,
    <<"#", "#", " ", "U", "s", "a", "g", "e">> }

\* the lines of a generated document: text, the standard heading, and a heading
\* that normalizes to the title of the custom one
NewLines ==
  { <<"n", "e", "w">>,
    <<"#", "#", " ", "U", "s", "a", "g", "e">>,
    <<"#", "#", " ", "n", "o", "t", "e", "s", "!">> }

\* the update lists of a selective update
UpdateLists ==
  { <<>>,
    <<<<"U", "s", "a", "g", "e">>>> }

FullOptions == [preserveCustomSections |-> TRUE, preserveHeader |-> FALSE,
                sectionsToUpdate |-> <<>>]

SelectiveOptions(list) == [preserveCustomSections |-> TRUE, preserveHeader |-> TRUE,
                           sectionsToUpdate |-> list]

InitMerge ==
  /\ readme \in DocsOf(ExistingLines, MaxExistingLines)
  /\ previous = <<>>
  /\ newContent = <<>>
  /\ options = NoOptions
  /\ projectInfo = NoProject
  /\ result = <<>>
  /\ op = "none"
  /\ runs = 0
  /\ NoCli

\* updateReadme, full update: the generated document is merged into the README
FullUpdate ==
  /\ runs = 0
  /\ \E generated \in DocsOf(NewLines, MaxNewLines) :
       /\ newContent' = generated
       /\ readme' = mergeReadmeContent(readme, generated, FullOptions)
  /\ options' = FullOptions
  /\ previous' = readme
  /\ op' = "full"
  /\ runs' = runs + 1
  /\ UNCHANGED <<projectInfo, result>>
  /\ UNCHANGED cliVars

\* updateReadme, selective update: updateSpecificSections with the chosen list
SelectiveUpdate ==
  /\ runs = 0
  /\ \E generated \in DocsOf(NewLines, MaxNewLines), list \in UpdateLists :
       /\ newContent' = generated
       /\ options' = SelectiveOptions(list)
       /\ readme' = updateSpecificSections(readme, generated, list)
  /\ previous' = readme
  /\ op' = "selective"
  /\ runs' = runs + 1
  /\ UNCHANGED <<projectInfo, result>>
  /\ UNCHANGED cliVars

\* mergeReadmeContent called without the preservation of custom sections
MergeWithOptions ==
  /\ runs = 0
  /\ \E generated \in DocsOf(NewLines, MaxNewLines), header \in BOOLEAN :
       /\ newContent' = generated
       /\ options' = [preserveCustomSections |-> FALSE, preserveHeader |-> header,
                      sectionsToUpdate |-> <<>>]
       /\ readme' = mergeReadmeContent(readme, generated,
                      [preserveCustomSections |-> FALSE, preserveHeader |-> header,
                       sectionsToUpdate |-> <<>>])
  /\ previous' = readme
  /\ op' = "merge"
  /\ runs' = runs + 1
  /\ UNCHANGED <<projectInfo, result>>
  /\ UNCHANGED cliVars

NextMerge == FullUpdate \/ SelectiveUpdate \/ MergeWithOptions

SpecMerge == InitMerge /\ [][NextMerge]_vars

(***************************************************************************)
(* Merge cases: mergeReadmeContent applied to two documents and options    *)
(* that are all inputs.                                                    *)
(***************************************************************************)
\* the lines of the existing README: text, a standard heading, a custom
\* heading of level 2 and a custom heading of level 3
CaseExistingLines ==
  { <<"o", "l", "d">>,
    <<"#", "#", " ", "U", "s", "a", "g", "e">>,
    <<"#", "#", " ", "N", "o", "t", "e", "s">>,
    <<"#", "#", "#", " ", "D", "e", "e", "p">> }

\* the lines of the generated document: text, the standard heading and a
\* heading that normalizes to the title of the custom heading
CaseNewLines ==
  { <<"n", "e", "w">>,
    <<"#", "#", " ", "U", "s", "a", "g", "e">>,
    <<"#", "#", " ", "n", "o", "t", "e", "s", "!">> }

\* the options: the full update, two selective updates and a merge that
\* preserves nothing
CaseOptions ==
  { FullOptions,
    SelectiveOptions(<<<<"U", "s", "a", "g", "e">>>>),
    SelectiveOptions(<<<<"N", "o", "t", "e", "s">>>>),
    [preserveCustomSections |-> FALSE, preserveHeader |-> FALSE,
     sectionsToUpdate |-> <<>>] }

InitMergeCases ==
  /\ readme \in DocsOf(CaseExistingLines, MaxCaseExistingLines)
  /\ previous = <<>>
  /\ newContent \in DocsOf(CaseNewLines, MaxCaseNewLines)
  /\ options \in CaseOptions
  /\ projectInfo = NoProject
  /\ result = <<>>
  /\ op = "none"
  /\ runs = 0
  /\ NoCli

\* mergeReadmeContent(existingContent, newContent, options), written back
Merge ==
  /\ runs = 0
  /\ readme' = mergeReadmeContent(readme, newContent, options)
  /\ previous' = readme
  /\ op' = "merged"
  /\ runs' = runs + 1
  /\ UNCHANGED <<newContent, options, projectInfo, result>>
  /\ UNCHANGED cliVars

NextMergeCases == Merge

SpecMergeCases == InitMergeCases /\ [][NextMergeCases]_vars

(***************************************************************************)
(* Merge of documents whose titles differ as texts and agree once          *)
(* normalized.                                                             *)
(***************************************************************************)
\* the lines of the existing README: text and a custom heading
TitleExistingLines ==
  { <<"o", "l", "d">>,
    <<"#", "#", " ", "N", "o", "t", "e", "s">> }

\* the lines of the generated document: the custom heading and a heading
\* of another text that normalizes to the same title
TitleNewLines ==
  { <<"#", "#", " ", "N", "o", "t", "e", "s">>,
    <<"#", "#", " ", "n", "o", "t", "e", "s", "!">> }

InitMergeTitles ==
  /\ readme \in DocsOf(TitleExistingLines, MaxTitleExistingLines)
  /\ previous = <<>>
  /\ newContent \in DocsOf(TitleNewLines, MaxTitleNewLines)
  /\ options \in CaseOptions
  /\ projectInfo = NoProject
  /\ result = <<>>
  /\ op = "none"
  /\ runs = 0
  /\ NoCli

NextMergeTitles == Merge

SpecMergeTitles == InitMergeTitles /\ [][NextMergeTitles]_vars

(***************************************************************************)
(* Inputs and actions of the parse specification.                          *)
(***************************************************************************)
\* the lines of a parsed document: text, a blank line, a heading, '#' marks
\* followed by one space, by two spaces, by no space, seven '#' marks, and a
\* heading of a file with CRLF line ends
ParseLines ==
  { <<"x">>,
    <<>>,
    <<"#", " ", "T">>,
    <<"#", " ">>,
    <<"#", " ", " ">>,
    <<"#", "T">>,
    <<"#", "#", "#", "#", "#", "#", "#", " ", "T">>,
    <<"#", "#", " ", "T", "\r">> }

InitParse ==
  /\ readme \in DocsOf(ParseLines, MaxParseLines)
  /\ previous = <<>>
  /\ newContent = <<>>
  /\ options = NoOptions
  /\ projectInfo = NoProject
  /\ result = <<>>
  /\ op = "none"
  /\ runs = 0
  /\ NoCli

\* the parse at the head of mergeReadmeContent: the sections and the header blob
Parse ==
  /\ runs = 0
  /\ result' = [ sections |-> extractSections(readme),
                 header   |-> getHeaderContent(readme) ]
  /\ op' = "parse"
  /\ runs' = runs + 1
  /\ UNCHANGED <<readme, previous, newContent, options, projectInfo>>
  /\ UNCHANGED cliVars

NextParse == Parse

SpecParse == InitParse /\ [][NextParse]_vars

(***************************************************************************)
(* Inputs and actions of the diff specification.                           *)
(***************************************************************************)
\* the lines of the two documents: a body, a heading, a heading whose title
\* normalizes to the same string, another heading
DiffLines ==
  { <<"o", "l", "d">>,
    <<"#", "#", " ", "N", "o", "t", "e", "s">>,
    <<"#", "#", " ", "n", "o", "t", "e", "s", "!">>,
    <<"#", "#", " ", "U", "s", "a", "g", "e">> }

InitDiff ==
  /\ readme \in DocsOf(DiffLines, MaxDiffOldLines)
  /\ previous = <<>>
  /\ newContent = <<>>
  /\ options = NoOptions
  /\ projectInfo = NoProject
  /\ result = <<>>
  /\ op = "none"
  /\ runs = 0
  /\ NoCli

\* createDiffSummary of the README and another document
Diff ==
  /\ runs = 0
  /\ \E generated \in DocsOf(DiffLines, MaxDiffNewLines) :
       /\ newContent' = generated
       /\ result' = createDiffSummary(readme, generated)
  /\ op' = "diff"
  /\ runs' = runs + 1
  /\ UNCHANGED <<readme, previous, options, projectInfo>>
  /\ UNCHANGED cliVars

NextDiff == Diff

SpecDiff == InitDiff /\ [][NextDiff]_vars

(***************************************************************************)
(* The diff of longer old documents: both documents are inputs.            *)
(***************************************************************************)
\* the lines of the old document: a body and two headings
DiffCaseOldLines ==
  { <<"o", "l", "d">>,
    <<"#", "#", " ", "N", "o", "t", "e", "s">>,
    <<"#", "#", " ", "U", "s", "a", "g", "e">> }

\* the lines of the new document: the same, the first heading in a spelling
\* that normalizes to the same string
DiffCaseNewLines ==
  { <<"o", "l", "d">>,
    <<"#", "#", " ", "n", "o", "t", "e", "s", "!">>,
    <<"#", "#", " ", "U", "s", "a", "g", "e">> }

InitDiffCases ==
  /\ readme \in DocsOf(DiffCaseOldLines, MaxDiffCaseOldLines)
  /\ previous = <<>>
  /\ newContent \in DocsOf(DiffCaseNewLines, MaxDiffCaseNewLines)
  /\ options = NoOptions
  /\ projectInfo = NoProject
  /\ result = <<>>
  /\ op = "none"
  /\ runs = 0
  /\ NoCli

\* createDiffSummary of the two documents
DiffCase ==
  /\ runs = 0
  /\ result' = createDiffSummary(readme, newContent)
  /\ op' = "diff"
  /\ runs' = runs + 1
  /\ UNCHANGED <<readme, previous, newContent, options, projectInfo>>
  /\ UNCHANGED cliVars

NextDiffCases == DiffCase

SpecDiffCases == InitDiffCases /\ [][NextDiffCases]_vars

(***************************************************************************)
(* Inputs and actions of the staleness specification.                      *)
(***************************************************************************)
\* the pieces a README is made of: version tokens, mentions of scripts and
\* mentions of a number of dependencies
DetectTokens ==
  { <<"V", "e", "r", "s", "i", "o", "n", " ", "1", ".", "2", ".", "0">>,
    <<"v", "1", ".", "3", ".", "0">>,
    <<"n", "p", "m", " ", "r", "u", "n", " ", "t", "e", "s", "t">>,
    <<"B", "u", "i", "l", "d">>,
    <<"3", " ", "d", "e", "p", "e", "n", "d", "e", "n", "c", "i", "e", "s">>,
    <<"5", " ", "D", "e", "p", "e", "n", "d", "e", "n", "c", "i", "e", "s">>,
    <<"\n">> }

\* the scripts of package.json: a command for every script defined; an empty
\* command is a defined script too
ProjectScripts ==
  { << >>,
    [n \in {<<"t", "e", "s", "t">>} |-> <<"j", "e", "s", "t">>],
    [n \in {<<"t", "e", "s", "t">>} |-> <<>>],
    [n \in {<<"b", "u", "i", "l", "d">>, <<"l", "i", "n", "t">>} |-> <<"t", "s", "c">>],
    [n \in {<<"t", "e", "s", "t">>, <<"s", "t", "a", "r", "t">>, <<"d", "e", "v">>} |-> <<"n", "o", "d", "e">>] }

\* the dependencies of package.json
ProjectDependencies == { {}, {"chalk", "ora", "inquirer"} }

DetectVersions == { <<>>, <<"1", ".", "2", ".", "0">>, <<"1", ".", "3", ".", "0">> }

InitDetect ==
  /\ readme \in TextsOf(DetectTokens, MaxDetectTokens)
  /\ previous = <<>>
  /\ newContent = <<>>
  /\ options = NoOptions
  /\ projectInfo \in [version : DetectVersions, scripts : ProjectScripts,
                      dependencies : ProjectDependencies]
  /\ result = <<>>
  /\ op = "none"
  /\ runs = 0
  /\ NoCli

\* README.md as the file system holds it
readmeFile == [exists |-> fileExists, content |-> readme]

\* detectOutdatedInfo on the analysis of the README
Detect ==
  /\ runs = 0
  /\ result' = detectOutdatedInfo(analyzeExistingReadme(readmeFile), projectInfo)
  /\ op' = "detect"
  /\ runs' = runs + 1
  /\ UNCHANGED <<readme, previous, newContent, options, projectInfo>>
  /\ UNCHANGED cliVars

NextDetect == Detect

SpecDetect == InitDetect /\ [][NextDetect]_vars

(***************************************************************************)
(* Inputs and actions of the analysis specification.                       *)
(***************************************************************************)
\* the lines of an analysed README: text, a blank line, a heading, '#' marks
\* without a space, '#' marks without a title (followed by one space and by
\* two), a table of contents, a badge, a link to an anchor, a link that is neither http nor an anchor, a custom
\* heading of level 3, a standard heading and a version
AnalyzeLines ==
  { <<"x">>,
    <<>>,
    <<"#", " ", "T">>,
    <<"#", "T">>,
    <<"#", " ">>,
    <<"#", " ", " ">>,
    <<"#", "#", " ", "T", "a", "b", "l", "e", " ", "o", "f", " ",
      "C", "o", "n", "t", "e", "n", "t", "s">>,
    <<"!", "[", "b", "]", "(", "h", "t", "t", "p", ":", "u", ")">>,
    <<"[", "l", "]", "(", "#", "a", ")">>,
    <<"[", "l", "]", "(", "x", ")">>,
    <<"#", "#", "#", " ", "D", "e", "e", "p">>,
    <<"#", "#", " ", "U", "s", "a", "g", "e">>,
    <<"v", "1", ".", "3", ".", "0">> }

\* the project metadata of the analysis specification
AnalyzeProjects ==
  { NoProject,
    [ version |-> <<"1", ".", "2", ".", "0">>,
      scripts |-> [n \in {<<"t", "e", "s", "t">>} |-> <<"j", "e", "s", "t">>],
      dependencies |-> {"chalk"} ] }

InitAnalyze ==
  /\ \/ fileExists = TRUE /\ readme \in DocsOf(AnalyzeLines, MaxAnalyzeLines)
     \/ fileExists = FALSE /\ readme = <<>>
  /\ previous = <<>>
  /\ newContent = <<>>
  /\ options = NoOptions
  /\ projectInfo \in AnalyzeProjects
  /\ result = <<>>
  /\ op = "none"
  /\ runs = 0
  /\ args = <<>>
  /\ config = NoConfig
  /\ api = {}
  /\ probes = <<>>
  /\ language = "en"
  /\ updateChoice = ""
  /\ writes = <<>>
  /\ console = <<>>
  /\ pc = Idle

\* analyzeExistingReadme('README.md')
Analyze ==
  /\ runs = 0
  /\ result' = analyzeExistingReadme(readmeFile)
  /\ op' = "analyze"
  /\ runs' = runs + 1
  /\ UNCHANGED <<readme, previous, newContent, options, projectInfo>>
  /\ UNCHANGED cliVars

\* identifySectionsToUpdate on the analysis of the README
IdentifySections ==
  /\ runs = 0
  /\ result' = identifySectionsToUpdate(analyzeExistingReadme(readmeFile), projectInfo)
  /\ op' = "identify"
  /\ runs' = runs + 1
  /\ UNCHANGED <<readme, previous, newContent, options, projectInfo>>
  /\ UNCHANGED cliVars

NextAnalyze == Analyze \/ Detect \/ IdentifySections

SpecAnalyze == InitAnalyze /\ [][NextAnalyze]_vars

(***************************************************************************)
(* The full merge of READMEs whose headings the two classifiers see.       *)
(***************************************************************************)
\* the lines of the existing README: text, a custom heading, a heading of the
\* merge vocabulary that is not of the analysis vocabulary, and a custom
\* heading of level 3
ClassifyExistingLines ==
  { <<"o", "l", "d">>,
    <<"#", "#", " ", "N", "o", "t", "e", "s">>,
    <<"#", "#", " ", "A", "b", "o", "u", "t">>,
    <<"#", "#", "#", " ", "D", "e", "e", "p">> }

\* the lines of the generated document
ClassifyNewLines ==
  { <<"n", "e", "w">>,
    <<"#", "#", " ", "U", "s", "a", "g", "e">>,
    <<"#", "#", " ", "n", "o", "t", "e", "s", "!">> }

InitClassify ==
  /\ readme \in DocsOf(ClassifyExistingLines, MaxClassifyLines)
  /\ previous = <<>>
  /\ newContent \in DocsOf(ClassifyNewLines, MaxClassifyLines)
  /\ options = FullOptions
  /\ projectInfo = NoProject
  /\ result = <<>>
  /\ op = "none"
  /\ runs = 0
  /\ NoCli

\* analyzeExistingReadme, then the full merge written back
AnalyzeAndMerge ==
  /\ runs = 0
  /\ result' = analyzeExistingReadme(readmeFile)
  /\ readme' = mergeReadmeContent(readme, newContent, options)
  /\ previous' = readme
  /\ op' = "analyzed and merged"
  /\ runs' = runs + 1
  /\ UNCHANGED <<newContent, options, projectInfo>>
  /\ UNCHANGED cliVars

NextClassify == AnalyzeAndMerge

SpecClassify == InitClassify /\ [][NextClassify]_vars

(***************************************************************************)
(* The stored configuration: getApiKey and handleConfig.                   *)
(***************************************************************************)
\* the keys the user can enter (the prompt accepts no empty key)
Keys == {"key-1", "key-2"}

\* the configuration after getApiKey: the key entered at the prompt is stored
\* when no key is stored and the user confirms
configAfterGetApiKey(cfg, entered, saveKey) ==
  IF cfg.apiKey # "" THEN cfg
  ELSE IF saveKey THEN [cfg EXCEPT !.apiKey = entered]
  ELSE cfg

\* the key getApiKey returns
getApiKey(cfg, entered) == IF cfg.apiKey # "" THEN cfg.apiKey ELSE entered

\* what getApiKey did
getApiKeyOutcome(cfg, saveKey) ==
  IF cfg.apiKey # "" THEN "getApiKey: saved key returned"
  ELSE IF saveKey THEN "getApiKey: prompted, key saved"
  ELSE "getApiKey: prompted, key not saved"

\* the configuration after handleConfig(args)
handleConfig(cfg, arguments) ==
  LET second == IF Len(arguments) > 1 THEN arguments[2] ELSE ""
  IN  IF second \in {"--remove-key", "-r"} THEN [cfg EXCEPT !.apiKey = ""]
      ELSE IF second \in {"--remove-model", "-rm"} THEN [cfg EXCEPT !.preferredModel = ""]
      ELSE IF second \in {"--remove-language", "-rl"} THEN [cfg EXCEPT !.preferredLanguage = ""]
      ELSE cfg

\* the argument lists of the config subcommand
ConfigArgs ==
  { <<"config">>, <<"config", "-r">>, <<"config", "--remove-key">>,
    <<"config", "-rm">>, <<"config", "-rl">> }

InitConfig ==
  /\ readme = <<>>
  /\ previous = <<>>
  /\ newContent = <<>>
  /\ options = NoOptions
  /\ projectInfo = NoProject
  /\ result = ""
  /\ op = "none"
  /\ runs = 0
  /\ fileExists = TRUE
  /\ args = <<>>
  /\ config \in [apiKey : {"", "key-1"}, preferredModel : {"", "gemini-1.5-flash"},
                  preferredLanguage : {"en", "fr"}]
  /\ api = {}
  /\ probes = <<>>
  /\ language = "en"
  /\ updateChoice = ""
  /\ writes = <<>>
  /\ console = <<>>
  /\ pc = Idle

\* a plausible slip: the key entered is stored whatever the answer to
\* 'Save for future use?'
GetApiKeyAlwaysSaves ==
  /\ runs < MaxConfigRuns
  /\ \E entered \in Keys, saveKey \in BOOLEAN :
       /\ config' = configAfterGetApiKey(config, entered, TRUE)
       /\ result' = getApiKey(config, entered)
       /\ op' = getApiKeyOutcome(config, saveKey)
  /\ runs' = runs + 1
  /\ UNCHANGED <<readme, previous, newContent, options, projectInfo>>
  /\ UNCHANGED <<updateChoice, writes, console, fileExists, args, api, probes, language, pc>>

\* getApiKey: the stored key, or the key entered at the prompt
GetApiKey ==
  /\ runs < MaxConfigRuns
  /\ \E entered \in Keys, saveKey \in BOOLEAN :
       /\ config' = configAfterGetApiKey(config, entered, saveKey)
       /\ result' = getApiKey(config, entered)
       /\ op' = getApiKeyOutcome(config, saveKey)
  /\ runs' = runs + 1
  /\ UNCHANGED <<readme, previous, newContent, options, projectInfo>>
  /\ UNCHANGED <<updateChoice, writes, console, fileExists, args, api, probes, language, pc>>

\* readmi config ...: handleConfig
HandleConfig ==
  /\ runs < MaxConfigRuns
  /\ \E arguments \in ConfigArgs :
       /\ args' = arguments
       /\ config' = handleConfig(config, arguments)
  /\ result' = ""
  /\ op' = "handleConfig"
  /\ runs' = runs + 1
  /\ UNCHANGED <<readme, previous, newContent, options, projectInfo>>
  /\ UNCHANGED <<updateChoice, writes, console, fileExists, api, probes, language, pc>>

NextConfig == GetApiKey \/ HandleConfig

SpecConfig == InitConfig /\ [][NextConfig]_vars

(***************************************************************************)
(* The command line: ReadmeGenerator.init, selectModel and generateReadme. *)
(***************************************************************************)
\* args.includes(flag)
hasArg(arguments, flag) == \E k \in DOMAIN arguments : arguments[k] = flag

\* args[0]
firstArg(arguments) == IF Len(arguments) > 0 THEN arguments[1] ELSE ""

\* the branch init takes, by its tests on the arguments in their order
initFlow(arguments) ==
  IF hasArg(arguments, "-v") \/ hasArg(arguments, "--version") THEN "showVersion"
  ELSE IF hasArg(arguments, "--update") THEN "selfUpdate"
  ELSE IF hasArg(arguments, "-h") \/ hasArg(arguments, "--help") THEN "showHelp"
  ELSE IF firstArg(arguments) = "config" THEN "handleConfig"
  ELSE IF firstArg(arguments) \in {"language", "lang"} THEN "selectLanguage"
  ELSE "generateReadme"

AVAILABLE_MODELS ==
  { "gemini-1.5-flash", "gemini-1.5-flash-latest", "gemini-1.5-flash-8b",
    "gemini-1.5-flash-8b-latest", "gemini-1.5-pro", "gemini-1.5-pro-latest",
    "gemini-2.0-flash-001", "gemini-2.0-flash",
    "gemini-2.0-flash-lite-preview-02-05", "gemini-2.5-flash-preview-04-17",
    "gemini-2.5-pro-preview-05-06" }

preferredModels ==
  << "gemini-2.0-flash", "gemini-1.5-flash", "gemini-1.5-pro", "gemini-1.5-flash-8b" >>

\* the model returned when no probe has succeeded
defaultModel == "gemini-1.5-flash"

\* the languages the user can select
Languages == {"en", "fr"}

\* the argument lists of a run: the flags of the update mode, of the version,
\* of the self-update, of the help and of the language
Flags == {"-u", "--update-readme", "-v", "--update", "-h", "-sl", "lang"}

\* the longest argument list
MaxArgs == 2

ArgLists == UNION {[1..n -> Flags] : n \in 0..MaxArgs}

\* the saved preferred model: none, a listed model that is not among the
\* preferred ones, a listed one that is, and one that is not listed
SavedModels == {"", "gemini-2.5-pro-preview-05-06", "gemini-1.5-flash", "gemini-pro"}

\* the processed text of the model's response
GeneratedReadmes ==
  { <<"#", " ", "P">>,
    <<"#", " ", "P", "\n", "\n", "n", "e", "w">> }

InitCli ==
  /\ readme = <<"#", "#", " ", "N", "o", "t", "e", "s", "\n", "o", "l", "d">>
  /\ previous = <<>>
  /\ newContent = <<>>
  /\ options = NoOptions
  /\ projectInfo = NoProject
  /\ result = ""
  /\ op = "none"
  /\ runs = 0
  /\ fileExists = TRUE
  /\ args \in ArgLists
  /\ config \in [apiKey : {"key-1"}, preferredModel : SavedModels, preferredLanguage : {"en"}]
  /\ api \in SUBSET (Range(preferredModels) \cup {"gemini-2.5-pro-preview-05-06"})
  /\ probes = <<>>
  /\ language = "en"
  /\ updateChoice = ""
  /\ writes = <<>>
  /\ console = <<>>
  /\ pc = Idle

\* init up to the call of selectModel: the branch is taken; the branches
\* other than the generation end the run (the config subcommand is the
\* action HandleConfig of the configuration specification)
Dispatch ==
  /\ pc.at = "idle"
  /\ op = "none"
  /\ initFlow(args) # "handleConfig"
  /\ op' = initFlow(args)
  /\ IF initFlow(args) = "selectLanguage"
        \/ (initFlow(args) = "generateReadme"
              /\ (hasArg(args, "--select-language") \/ hasArg(args, "-sl")))
     THEN \E chosen \in Languages, saveLanguage \in BOOLEAN,
               entered \in Keys, saveKey \in BOOLEAN :
            /\ language' = chosen
            /\ config' =
                 LET stored == IF initFlow(args) = "generateReadme"
                               THEN configAfterGetApiKey(config, entered, saveKey)
                               ELSE config
                 IN  IF saveLanguage THEN [stored EXCEPT !.preferredLanguage = chosen]
                                     ELSE stored
     ELSE /\ language' = (IF config.preferredLanguage = "" THEN "en"
                                                          ELSE config.preferredLanguage)
          /\ \E entered \in Keys, saveKey \in BOOLEAN :
               config' = IF initFlow(args) = "generateReadme"
                         THEN configAfterGetApiKey(config, entered, saveKey)
                         ELSE config
  /\ pc' = IF initFlow(args) = "generateReadme"
           THEN [at |-> "selectModel", i |-> 0]
           ELSE [at |-> "exit", i |-> 0]
  /\ runs' = runs + 1
  /\ UNCHANGED <<readme, previous, newContent, options, projectInfo, result>>
  /\ UNCHANGED <<updateChoice, writes, console, fileExists, args, api, probes>>

\* selectModel: the saved model, when it is set and listed, is probed first
ProbeSaved ==
  /\ pc.at = "selectModel"
  /\ config.preferredModel # ""
  /\ config.preferredModel \in AVAILABLE_MODELS
  /\ probes' = Append(probes, config.preferredModel)
  /\ IF config.preferredModel \in api
     THEN /\ result' = config.preferredModel
          /\ pc' = [at |-> "selected", i |-> 0]
     ELSE /\ result' = result
          /\ pc' = [at |-> "loop", i |-> 1]
  /\ UNCHANGED <<readme, previous, newContent, options, projectInfo, op, runs>>
  /\ UNCHANGED <<updateChoice, writes, console, fileExists, args, config, api, language>>

\* selectModel: no saved model, or one that is not listed
SkipSaved ==
  /\ pc.at = "selectModel"
  /\ ~ (config.preferredModel # "" /\ config.preferredModel \in AVAILABLE_MODELS)
  /\ pc' = [at |-> "loop", i |-> 1]
  /\ UNCHANGED <<readme, previous, newContent, options, projectInfo, result, op, runs>>
  /\ UNCHANGED <<updateChoice, writes, console, fileExists, args, config, api, probes, language>>

\* the position after a turn of the loop that did not break
nextTurn(i) ==
  IF i < Len(preferredModels) THEN [at |-> "loop", i |-> i + 1]
                              ELSE [at |-> "afterLoop", i |-> 0]

\* a plausible slip: the loop goes on after a probe that succeeded
ProbeNextWithoutBreak ==
  /\ pc.at = "loop"
  /\ IF preferredModels[pc.i] \notin AVAILABLE_MODELS
     THEN /\ probes' = probes
          /\ result' = result
     ELSE /\ probes' = Append(probes, preferredModels[pc.i])
          /\ result' = IF preferredModels[pc.i] \in api THEN preferredModels[pc.i]
                                                       ELSE result
  /\ pc' = nextTurn(pc.i)
  /\ UNCHANGED <<readme, previous, newContent, options, projectInfo, op, runs>>
  /\ UNCHANGED <<updateChoice, writes, console, fileExists, args, config, api, language>>

\* selectModel: one turn of the loop over preferredModels; result is
\* selectedModel, '' for null
ProbeNext ==
  /\ pc.at = "loop"
  /\ IF preferredModels[pc.i] \notin AVAILABLE_MODELS
     THEN /\ probes' = probes
          /\ result' = result
          /\ pc' = nextTurn(pc.i)
     ELSE /\ probes' = Append(probes, preferredModels[pc.i])
          /\ IF preferredModels[pc.i] \in api
             THEN /\ result' = preferredModels[pc.i]
                  /\ pc' = [at |-> "afterLoop", i |-> 0]
             ELSE /\ result' = result
                  /\ pc' = nextTurn(pc.i)
  /\ UNCHANGED <<readme, previous, newContent, options, projectInfo, op, runs>>
  /\ UNCHANGED <<updateChoice, writes, console, fileExists, args, config, api, language>>

\* selectModel after the loop: when no probe has succeeded the default model
\* is taken, without a probe; the model is returned
Fallback ==
  /\ pc.at = "afterLoop"
  /\ result' = IF result = "" THEN defaultModel ELSE result
  /\ pc' = [at |-> "selected", i |-> 0]
  /\ UNCHANGED <<readme, previous, newContent, options, projectInfo, op, runs>>
  /\ UNCHANGED cliVarsButPc

\* generateReadme: the response of the model, processed, is written to
\* README.md (README.<language>.md for another language than en); a failure
\* of the model call ends the run with an error
GenerateReadme ==
  /\ pc.at = "selected"
  /\ \/ \E processedContent \in GeneratedReadmes :
          IF language = "en"
          THEN /\ readme' = processedContent
               /\ previous' = readme
               /\ newContent' = processedContent
               /\ op' = "generateReadme written"
          ELSE /\ UNCHANGED <<readme, previous>>
               /\ newContent' = processedContent
               /\ op' = "generateReadme written"
     \/ /\ op' = "generateReadme failed"
        /\ UNCHANGED <<readme, previous, newContent>>
  /\ pc' = [at |-> "exit", i |-> 0]
  /\ UNCHANGED <<options, projectInfo, result, runs>>
  /\ UNCHANGED cliVarsButPc

NextCli == Dispatch \/ ProbeSaved \/ SkipSaved \/ ProbeNext \/ Fallback \/ GenerateReadme

SpecCli == InitCli /\ [][NextCli]_vars

(***************************************************************************)
(* Updates of an existing README: updateReadme.  The call of the model is  *)
(* awaited, so a call takes two steps: up to the call of the model, and    *)
(* from its answer to the end.                                             *)
(***************************************************************************)
\* how many calls of updateReadme are followed
MaxUpdates == 2

\* the README.md before the first update: a hand-written one with a version
\* and a standard section, a hand-written one with a custom section, and
\* two that generateReadme has written (the processed answer of the
\* model), one of them ending with a custom section
UpdateReadmes ==
  { join(<<<<"v", "1", ".", "0", ".", "0">>, <<"#", "#", " ", "U", "s", "a", "g", "e">>, <<"o", "l", "d">>>>),
    join(<<<<"#", "#", " ", "N", "o", "t", "e", "s">>, <<"o", "l", "d">>>>),
    postProcessReadme(join(<<<<"#", " ", "P">>, <<"#", "#", " ", "U", "s", "a", "g", "e">>, <<"-", " ", "r", "u", "n">>>>)),
    postProcessReadme(join(<<<<"#", " ", "P">>, <<"#", "#", " ", "N", "o", "t", "e", "s">>, <<"n", "e", "w">>>>)) }

\* the answers of the model (response.text()): the empty one, a title
\* alone, a title with a standard section holding a list
GeneratedTexts ==
  { <<>>,
    <<"#", " ", "P">>,
    join(<<<<"#", " ", "P">>, <<"#", "#", " ", "U", "s", "a", "g", "e">>, <<"-", " ", "r", "u", "n">>>>) }

\* the sections chosen for a selective update
UpdateSections == <<<<"U", "s", "a", "g", "e">>>>

InitUpdate ==
  /\ readme \in UpdateReadmes
  /\ previous = <<>>
  /\ newContent = <<>>
  /\ options = NoOptions
  /\ projectInfo \in {[NoProject EXCEPT !.version = v] : v \in ProjectVersions}
  /\ result = <<>>
  /\ op = "none"
  /\ runs = 0
  /\ NoCli

\* updateReadme is called with readmeAnalysis.content the text of README.md.
\* For the choice version the README is patched and written at once; for
\* the other choices the model is called and awaited
UpdateStart ==
  /\ pc.at \in {"idle", "returned", "threw"}
  /\ runs < MaxUpdates
  /\ \E choice \in {"version", "full", "selective"} :
       /\ updateChoice' = choice
       /\ previous' = readme
       /\ IF choice = "version"
          THEN /\ readme' = updateVersionInReadme(readme, projectInfo.version)
               /\ writes' = <<readme'>>
               /\ console' = Append(console, "README version updated")
               /\ op' = "README version updated"
               /\ pc' = [at |-> "returned", i |-> 0]
          ELSE /\ writes' = <<>>
               /\ op' = "Generating updated content"
               /\ pc' = [at |-> "awaiting model", i |-> 0]
               /\ UNCHANGED <<readme, console>>
  /\ runs' = runs + 1
  /\ UNCHANGED <<newContent, options, projectInfo, result>>
  /\ UNCHANGED <<fileExists, args, config, api, probes, language>>

\* model.generateContent throws: updateReadme throws 'README update failed'
ModelThrows ==
  /\ pc.at = "awaiting model"
  /\ op' = "README update failed"
  /\ pc' = [at |-> "threw", i |-> 0]
  /\ UNCHANGED <<readme, previous, newContent, options, projectInfo, result, runs>>
  /\ UNCHANGED cliVarsButPc

\* finalContent of updateReadme for the processed answer of the model
finalContent(choice, existingContent, processedNewContent) ==
  IF choice = "selective"
  THEN updateSpecificSections(existingContent, processedNewContent, UpdateSections)
  ELSE mergeReadmeContent(existingContent, processedNewContent, FullOptions)

\* a plausible slip: the answer of the model is not tested for emptiness
ModelReturnsUnchecked ==
  /\ pc.at = "awaiting model"
  /\ \E text \in GeneratedTexts :
     \E processedNewContent \in {postProcessReadme(text)} :
     \E final \in {finalContent(updateChoice, previous, processedNewContent)} :
       /\ newContent' = text
       /\ readme' = final
       /\ writes' = Append(writes, final)
       /\ result' = IF updateChoice = "full" THEN createDiffSummary(previous, final)
                                             ELSE result
       /\ console' = Append(console, IF updateChoice = "full" THEN "README updated"
                                                               ELSE "README sections updated")
       /\ op' = "README written"
       /\ pc' = [at |-> "returned", i |-> 0]
  /\ UNCHANGED <<previous, options, projectInfo, runs>>
  /\ UNCHANGED <<fileExists, args, config, api, probes, language, updateChoice>>

\* the model answers: an empty answer makes updateReadme throw; any other
\* answer is processed, merged with the README as it was analysed (for the
\* full update the diff summary is computed and shown) and the merged text
\* is written to README.md
ModelReturns ==
  /\ pc.at = "awaiting model"
  /\ \E text \in GeneratedTexts :
       /\ newContent' = text
       /\ IF text = <<>>
          THEN /\ op' = "README update failed"
               /\ pc' = [at |-> "threw", i |-> 0]
               /\ UNCHANGED <<readme, writes, result, console>>
          ELSE \E processedNewContent \in {postProcessReadme(text)} :
               \E final \in {finalContent(updateChoice, previous, processedNewContent)} :
                 /\ readme' = final
                 /\ writes' = Append(writes, final)
                 /\ result' = IF updateChoice = "full"
                              THEN createDiffSummary(previous, final)
                              ELSE result
                 /\ console' = Append(console, IF updateChoice = "full"
                                               THEN "README updated"
                                               ELSE "README sections updated")
                 /\ op' = "README written"
                 /\ pc' = [at |-> "returned", i |-> 0]
  /\ UNCHANGED <<previous, options, projectInfo, runs>>
  /\ UNCHANGED <<fileExists, args, config, api, probes, language, updateChoice>>

NextUpdate == UpdateStart \/ ModelThrows \/ ModelReturns

SpecUpdate == InitUpdate /\ [][NextUpdate]_vars

(***************************************************************************)
(* C1: the version patch is idempotent for every README text and every     *)
(* version string, plain triple or not: patching a README that was just    *)
(* patched with the same version changes nothing.                          *)
(***************************************************************************)
VersionPatchIdempotent == runs >= 2 => readme = previous

\* the same for plain X.Y.Z versions only (what the code does achieve)
VersionPatchIdempotentOnTriples ==
  (runs >= 2 /\ IsTriple(projectInfo.version)) => readme = previous

\* the text without the characters a version number is made of
withoutVersionCharacters(text) ==
  pick(text, {i \in 1..Len(text) : text[i] \notin Digit \cup {"."}})

(***************************************************************************)
(* C14: the version patch changes version numbers only: every character    *)
(* of the text that is not a digit or a dot is left as it was, in an npm    *)
(* version badge (the url up to its version segment is kept) and in a      *)
(* match of the word version (its letter case and the separator between    *)
(* word and number are kept).  Stated for versions of the form X.Y.Z.      *)
(***************************************************************************)
VersionPatchKeepsOtherText ==
  (op = "version" /\ IsTriple(projectInfo.version)) =>
    withoutVersionCharacters(readme) = withoutVersionCharacters(previous)

(***************************************************************************)
(* Properties of the merge.                                                *)
(***************************************************************************)
\* the text has a section with this heading line and this body
carriesVerbatim(text, heading, body) ==
  \E i \in DOMAIN extractSections(text) :
    /\ extractSections(text)[i].rawTitle = heading
    /\ extractSections(text)[i].content = body

\* the same, except that the last section of the text, when its body is empty,
\* may have lost the trailing white space of its heading line
carries(text, heading, body) ==
  \/ carriesVerbatim(text, heading, body)
  \/ /\ body = <<>>
     /\ Len(extractSections(text)) > 0
     /\ extractSections(text)[Len(extractSections(text))].rawTitle = trim(heading)
     /\ extractSections(text)[Len(extractSections(text))].content = <<>>

\* the existing sections C2 is about: level 2, custom, title not in the new document
unmatchedCustomLevel2(existingContent, generated) ==
  {i \in DOMAIN extractSections(existingContent) :
    /\ extractSections(existingContent)[i].level = 2
    /\ isCustomSection(normalizeTitle(extractSections(existingContent)[i].title))
    /\ normalizeTitle(extractSections(existingContent)[i].title)
         \notin processedSectionTitles(generated)}

(***************************************************************************)
(* C2 as stated: after a full merge, every level-2 custom section of the   *)
(* existing document whose normalized title is absent from the new         *)
(* document is in the merged text with its original heading line and its   *)
(* trimmed body verbatim.                                                  *)
(***************************************************************************)
CustomSectionKeptVerbatim ==
  op = "full" =>
    \A i \in unmatchedCustomLevel2(previous, newContent) :
      carriesVerbatim(readme, extractSections(previous)[i].rawTitle,
                      extractSections(previous)[i].content)

(***************************************************************************)
(* C2 as amended: the same, except that the heading line loses its         *)
(* trailing white space when the section has an empty body and ends the    *)
(* merged document (the final trim of the merged text strips it).          *)
(***************************************************************************)
CustomSectionKept ==
  op = "full" =>
    \A i \in unmatchedCustomLevel2(previous, newContent) :
      carries(readme, extractSections(previous)[i].rawTitle,
              extractSections(previous)[i].content)

\* a full merge that kept a custom section with a body behind a section of the new document
CustomSectionKeptWitness ==
  /\ op = "full"
  /\ Len(extractSections(newContent)) > 0
  /\ \E i \in unmatchedCustomLevel2(previous, newContent) :
       /\ extractSections(previous)[i].content # <<>>
       /\ carriesVerbatim(readme, extractSections(previous)[i].rawTitle,
                          extractSections(previous)[i].content)

(***************************************************************************)
(* C3: after a selective merge with any update list, the empty one         *)
(* included, every section of the new document that has an existing        *)
(* section of the same normalized title shows the existing heading and     *)
(* body when its title is not in the list and the new heading and body     *)
(* when it is.                                                             *)
(***************************************************************************)
SelectiveMergeFollowsList ==
  op = "selective" =>
    \A i \in DOMAIN extractSections(newContent) :
      LET new      == extractSections(newContent)[i]
          match    == findSection(extractSections(previous), normalizeTitle(new.title))
          existing == extractSections(previous)[match]
          listed   == \E k \in DOMAIN options.sectionsToUpdate :
                        normalizeTitle(options.sectionsToUpdate[k]) = normalizeTitle(new.title)
      IN  match # 0 =>
            IF listed THEN carries(readme, new.rawTitle, new.content)
                      ELSE carries(readme, existing.rawTitle, existing.content)

\* the same for the non-empty update lists only (what the code does achieve)
SelectiveMergeFollowsNonEmptyList ==
  Len(options.sectionsToUpdate) > 0 => SelectiveMergeFollowsList

(***************************************************************************)
(* C4: the text returned by mergeReadmeContent ends with exactly one       *)
(* newline: its last character is a newline and the character before it,   *)
(* if there is one, is not white space.                                    *)
(***************************************************************************)
MergedEndsWithOneNewline ==
  op \in {"full", "selective", "merge"} =>
    /\ Len(readme) >= 1
    /\ readme[Len(readme)] = "\n"
    /\ Len(readme) >= 2 => readme[Len(readme) - 1] \notin WhiteSpace

\* the merge of two empty documents returned a single newline
MergedEmptyWitness ==
  /\ op \in {"full", "selective", "merge"}
  /\ previous = <<>>
  /\ newContent = <<>>
  /\ readme = <<"\n">>

(***************************************************************************)
(* Properties of the diff summary.                                         *)
(***************************************************************************)
\* the buckets, among names, that list a title (titles compared normalized)
bucketsOf(summary, names, title) ==
  {b \in names : \E k \in DOMAIN summary[b] :
                   normalizeTitle(summary[b][k]) = normalizeTitle(title)}

\* no two sections of the text have titles that normalize to the same string
distinctTitles(text) ==
  \A i, j \in DOMAIN extractSections(text) :
    normalizeTitle(extractSections(text)[i].title)
      = normalizeTitle(extractSections(text)[j].title) => i = j

(***************************************************************************)
(* C5: in the summary of createDiffSummary every section title of the old  *)
(* document is in exactly one of removed, modified, unchanged and every    *)
(* section title of the new document is in exactly one of added, modified, *)
(* unchanged, also when several titles normalize to the same string.       *)
(***************************************************************************)
DiffSummaryComplete ==
  op = "diff" =>
    /\ \A i \in DOMAIN extractSections(readme) :
         Cardinality(bucketsOf(result, {"removed", "modified", "unchanged"},
                               extractSections(readme)[i].title)) = 1
    /\ \A i \in DOMAIN extractSections(newContent) :
         Cardinality(bucketsOf(result, {"added", "modified", "unchanged"},
                               extractSections(newContent)[i].title)) = 1

\* the same for new documents without two titles of the same normalized form
\* (what the code does achieve)
DiffSummaryCompleteWithoutDuplicates ==
  distinctTitles(newContent) => DiffSummaryComplete

\* the old sections whose normalized title is the one of the new section i
matchesOf(old, new, i) ==
  {j \in DOMAIN old : normalizeTitle(old[j].title) = normalizeTitle(new[i].title)}

\* the titles of the sections at the positions K, in the order of the document
RECURSIVE titlesInOrder(_, _)
titlesInOrder(sections, K) ==
  IF K = {} THEN <<>>
  ELSE LET first == CHOOSE i \in K : \A j \in K : i <= j
       IN  <<sections[first].title>> \o titlesInOrder(sections, K \ {first})

\* added and removed: the unmatched titles, in the order of their document
unmatchedBuckets ==
  LET old == extractSections(readme)
      new == extractSections(newContent)
  IN  /\ result.added = titlesInOrder(new, {i \in DOMAIN new : matchesOf(old, new, i) = {}})
      /\ result.removed = titlesInOrder(old, {j \in DOMAIN old : matchesOf(new, old, j) = {}})

(***************************************************************************)
(* C22: added lists, in the order of the new document, the new   *)
(* sections without an old section of equal normalized title; removed, in  *)
(* the order of the old document, the old sections without such a new      *)
(* section; modified, in the order of the new document, the new sections   *)
(* of a matched pair whose trimmed bodies differ, and unchanged those of a *)
(* matched pair whose trimmed bodies are equal.                            *)
(***************************************************************************)
DiffClassifiesEveryPair ==
  op = "diff" =>
    LET old == extractSections(readme)
        new == extractSections(newContent)
    IN  /\ unmatchedBuckets
        /\ result.modified = titlesInOrder(new, {i \in DOMAIN new :
              \E j \in matchesOf(old, new, i) : trim(old[j].content) # trim(new[i].content)})
        /\ result.unchanged = titlesInOrder(new, {i \in DOMAIN new :
              \E j \in matchesOf(old, new, i) : trim(old[j].content) = trim(new[i].content)})

\* the same, a matched new section being compared with the first old section
\* of equal normalized title only (what the code does achieve)
DiffClassifiesByFirstMatch ==
  op = "diff" =>
    LET old == extractSections(readme)
        new == extractSections(newContent)
        firstMatch(i) == CHOOSE j \in matchesOf(old, new, i) :
                           \A k \in matchesOf(old, new, i) : j <= k
        matched == {i \in DOMAIN new : matchesOf(old, new, i) # {}}
    IN  /\ unmatchedBuckets
        /\ result.modified = titlesInOrder(new, {i \in matched :
              trim(old[firstMatch(i)].content) # trim(new[i].content)})
        /\ result.unchanged = titlesInOrder(new, {i \in matched :
              trim(old[firstMatch(i)].content) = trim(new[i].content)})

\* two old sections of one normalized title and different bodies, matched by
\* a new section whose body is the one of the first
DiffFirstMatchWitness ==
  /\ op = "diff"
  /\ \E i \in DOMAIN extractSections(newContent) :
       LET old == extractSections(readme)
           new == extractSections(newContent)
       IN  /\ Cardinality(matchesOf(old, new, i)) = 2
           /\ \E j, k \in matchesOf(old, new, i) :
                 /\ j < k
                 /\ old[j].content = new[i].content
                 /\ old[k].content # new[i].content
  /\ result.modified = <<>>
  /\ result.unchanged # <<>>

(***************************************************************************)
(* Properties of the parser.                                               *)
(***************************************************************************)
\* the ATX heading pattern in the words of the specification: 1 to 6 '#'
\* characters, then at least one space, then non-empty text
atxHeadingLine(line) ==
  /\ hashCount(line) >= 1
  /\ hashCount(line) <= 6
  /\ occursAt(line, hashCount(line) + 1, <<" ">>)
  /\ Len(line) > hashCount(line) + 1

atxHeadingLines(text) ==
  {i \in DOMAIN split(text) : atxHeadingLine(split(text)[i])}

(***************************************************************************)
(* C6: the number of sections extractSections returns is the number of     *)
(* lines of the text that match the ATX heading pattern.                   *)
(***************************************************************************)
SectionCountIsHeadingCount ==
  op = "parse" => Len(result.sections) = Cardinality(atxHeadingLines(readme))

\* the same for texts without a carriage return (what the code does achieve)
SectionCountIsHeadingCountWithoutCR ==
  (\A i \in DOMAIN readme : readme[i] # "\r") => SectionCountIsHeadingCount

(***************************************************************************)
(* C7: for a text without an ATX heading line, extractSections returns no  *)
(* section and the header blob of getHeaderContent is the trimmed text     *)
(* (compared here up to the white space that ends the blob).               *)
(***************************************************************************)
HeaderIsTrimmedText ==
  (op = "parse" /\ atxHeadingLines(readme) = {}) =>
    /\ result.sections = <<>>
    /\ trim(result.header) = trim(readme)

\* the same for texts in which no line starts with '#' marks and white space
\* (what the code does achieve)
HeaderIsTrimmedTextWithoutHashLines ==
  (\A i \in DOMAIN split(readme) : ~ headingStart(split(readme)[i])) => HeaderIsTrimmedText

\* the sections whose line range holds line i (lines are numbered from 0)
sectionsAt(sections, i) ==
  {k \in DOMAIN sections : sections[k].startLine <= i /\ i <= sections[k].endLine}

\* a line of '#' marks, at most six, with no title text after them
hashMarksOnly(line) ==
  /\ hashCount(line) >= 1
  /\ hashCount(line) <= 6
  /\ \A j \in (hashCount(line) + 1)..Len(line) : line[j] \in WhiteSpace

(***************************************************************************)
(* C20: the header blob and the sections partition the text: every line is *)
(* one of the lines the header blob is made of or lies in the line range   *)
(* of exactly one section, never both; the ranges are non-empty and each   *)
(* starts on the line after the previous one ends; and a line of '#' marks *)
(* with no title text starts no section and does not end the header blob.  *)
(***************************************************************************)
HeaderAndSectionsPartition ==
  op = "parse" =>
    LET lines == split(readme)
        h     == Len(headerLines(readme))
        s     == result.sections
    IN  /\ result.header = trim(join(headerLines(readme))) \o <<"\n", "\n">>
        /\ \A i \in 0..(Len(lines) - 1) :
              IF i < h THEN sectionsAt(s, i) = {}
                       ELSE Cardinality(sectionsAt(s, i)) = 1
        /\ \A k \in DOMAIN s : s[k].startLine <= s[k].endLine
        /\ \A k \in 1..(Len(s) - 1) : s[k + 1].startLine = s[k].endLine + 1
        /\ \A i \in DOMAIN lines :
              hashMarksOnly(lines[i]) =>
                /\ \A k \in DOMAIN s : s[k].startLine # i - 1
                /\ (\A j \in 1..(i - 1) : ~ headerMatches(lines[j])) => i <= h

\* the same for texts in which the lines that start like a heading for
\* getHeaderContent are the lines that are headings for extractSections and
\* have title text (what the code does achieve)
HeaderAndSectionsPartitionOfPlainHeadings ==
  (\A i \in DOMAIN split(readme) :
      /\ headingStart(split(readme)[i]) <=> headerMatches(split(readme)[i])
      /\ ~ (hashMarksOnly(split(readme)[i]) /\ headerMatches(split(readme)[i])))
    => HeaderAndSectionsPartition

\* a text with sections and header lines that is partitioned
PartitionedTextWitness ==
  /\ op = "parse"
  /\ Len(headerLines(readme)) > 0
  /\ Len(result.sections) > 1
  /\ HeaderAndSectionsPartition

(***************************************************************************)
(* Properties of the staleness detector.                                   *)
(***************************************************************************)
\* the issues of one type
issuesOfType(issues, type) == {k \in DOMAIN issues : issues[k].type = type}

(***************************************************************************)
(* C8: detectOutdatedInfo returns exactly one issue of type version, with  *)
(* severity medium, current = the version parsed from the README and       *)
(* expected = the project version, when both versions are present and      *)
(* differ as strings, and no issue of type version otherwise.              *)
(***************************************************************************)
VersionIssueIffDrift ==
  op = "detect" =>
    IF /\ extractVersion(readme) # <<>>
       /\ projectInfo.version # <<>>
       /\ extractVersion(readme) # projectInfo.version
    THEN /\ Cardinality(issuesOfType(result, "version")) = 1
         /\ \A k \in issuesOfType(result, "version") :
              result[k] = [ type |-> "version", severity |-> "medium",
                            current |-> extractVersion(readme),
                            expected |-> projectInfo.version ]
    ELSE issuesOfType(result, "version") = {}

\* the scenario of the specification: the README says Version 1.2.0, the
\* project is at 1.3.0, and the one issue names both
VersionDriftWitness ==
  /\ op = "detect"
  /\ includes(readme, <<"V", "e", "r", "s", "i", "o", "n", " ", "1", ".", "2", ".", "0">>)
  /\ projectInfo.version = <<"1", ".", "3", ".", "0">>
  /\ Cardinality(issuesOfType(result, "version")) = 1
  /\ \E k \in DOMAIN result :
       /\ result[k].type = "version"
       /\ result[k].current = <<"1", ".", "2", ".", "0">>
       /\ result[k].expected = <<"1", ".", "3", ".", "0">>

\* the script names with a missing-script issue of severity low
reportedScripts(issues) ==
  {issues[k].script : k \in {j \in issuesOfType(issues, "missing-script") :
                               issues[j].severity = "low"}}

\* the README, in lower case, mentions neither npm run <script> nor the script
unmentioned(text, script) ==
  /\ ~ includes(toLowerCase(text), npmRun \o script)
  /\ ~ includes(toLowerCase(text), script)

(***************************************************************************)
(* C9 as stated: a missing-script issue of severity low is returned for a  *)
(* script name exactly when it is one of test, build, start, dev, the      *)
(* project defines it, and the README mentions neither npm run <name> nor  *)
(* the bare name, in any letter case.                                      *)
(***************************************************************************)
MissingScriptIffDefined ==
  op = "detect" =>
    /\ \A k \in issuesOfType(result, "missing-script") : result[k].severity = "low"
    /\ reportedScripts(result) =
         {script \in Range(importantScripts) :
            /\ script \in DOMAIN projectInfo.scripts
            /\ unmentioned(readme, script)}

(***************************************************************************)
(* C9 as amended: the same, for the scripts the project defines with a     *)
(* non-empty command.                                                      *)
(***************************************************************************)
MissingScriptIffDefinedNonEmpty ==
  op = "detect" =>
    /\ \A k \in issuesOfType(result, "missing-script") : result[k].severity = "low"
    /\ reportedScripts(result) =
         {script \in Range(importantScripts) :
            /\ script \in DOMAIN projectInfo.scripts
            /\ projectInfo.scripts[script] # <<>>
            /\ unmentioned(readme, script)}

\* the scenario of the specification: the project has a test script, the
\* README does not mention test, and the issue is returned
MissingScriptWitness ==
  /\ op = "detect"
  /\ <<"t", "e", "s", "t">> \in DOMAIN projectInfo.scripts
  /\ unmentioned(readme, <<"t", "e", "s", "t">>)
  /\ reportedScripts(result) = {<<"t", "e", "s", "t">>}

\* the phrases <N> dependencies of the text, in any letter case: the
\* positions at which a number followed by white space and the word starts
dependencyPhrases(text) ==
  {i \in 1..Len(text) :
    /\ depMentionLength(text, i) > 0
    /\ (i = 1 \/ text[i - 1] \notin Digit)}

\* the integer N of the phrase that starts at position i
phraseNumber(text, i) == parseInt(SubSeq(text, i, i + runLength(text, i, Digit) - 1))

(***************************************************************************)
(* C10 as stated: a dependency-count issue of severity low is returned     *)
(* whenever the README has a phrase <N> dependencies whose N differs from  *)
(* the number of dependencies of the project, and none when there is no    *)
(* such phrase or every such N equals that number.                         *)
(***************************************************************************)
DependencyIssueIffAnyPhraseDiffers ==
  op = "detect" =>
    /\ \A k \in issuesOfType(result, "dependency-count") : result[k].severity = "low"
    /\ (issuesOfType(result, "dependency-count") # {}) <=>
         \E i \in dependencyPhrases(readme) :
           phraseNumber(readme, i) # Cardinality(projectInfo.dependencies)

(***************************************************************************)
(* C10 as amended: the issue is returned exactly when the README has such  *)
(* a phrase and the N of the first one differs from the number of          *)
(* dependencies of the project.                                            *)
(***************************************************************************)
DependencyIssueIffFirstPhraseDiffers ==
  op = "detect" =>
    /\ \A k \in issuesOfType(result, "dependency-count") : result[k].severity = "low"
    /\ Cardinality(issuesOfType(result, "dependency-count")) <= 1
    /\ (issuesOfType(result, "dependency-count") # {}) <=>
         /\ dependencyPhrases(readme) # {}
         /\ phraseNumber(readme, Min(dependencyPhrases(readme)))
              # Cardinality(projectInfo.dependencies)

\* a README with two phrases, the first one stale, and the issue returned
DependencyIssueWitness ==
  /\ op = "detect"
  /\ Cardinality(dependencyPhrases(readme)) = 2
  /\ phraseNumber(readme, Min(dependencyPhrases(readme)))
       # Cardinality(projectInfo.dependencies)
  /\ issuesOfType(result, "dependency-count") # {}

\* the place of an issue in the fixed order: the version issue, the scripts
\* test, build, start, dev, the dependency count
issueRank(issue) ==
  IF issue.type = "version" THEN 1
  ELSE IF issue.type = "missing-script"
       THEN 1 + CHOOSE k \in DOMAIN importantScripts : importantScripts[k] = issue.script
       ELSE 2 + Len(importantScripts)

(***************************************************************************)
(* C21: the issues detectOutdatedInfo returns are in the fixed order: the  *)
(* version issue, the missing scripts in the order test, build, start,     *)
(* dev, the dependency count, each at most once; and each rule fires       *)
(* exactly on its own condition, whatever the other rules do.              *)
(***************************************************************************)
IssuesInFixedOrderAndIndependent ==
  op = "detect" =>
    /\ \A k \in DOMAIN result :
         /\ result[k].type \in {"version", "missing-script", "dependency-count"}
         /\ result[k].type = "missing-script" => result[k].script \in Range(importantScripts)
    /\ \A k \in 1..(Len(result) - 1) : issueRank(result[k]) < issueRank(result[k + 1])
    /\ (issuesOfType(result, "version") # {}) <=>
         /\ extractVersion(readme) # <<>>
         /\ projectInfo.version # <<>>
         /\ extractVersion(readme) # projectInfo.version
    /\ \A script \in Range(importantScripts) :
         (\E k \in issuesOfType(result, "missing-script") : result[k].script = script) <=>
           /\ script \in DOMAIN projectInfo.scripts
           /\ projectInfo.scripts[script] # <<>>
           /\ unmentioned(readme, script)
    /\ (issuesOfType(result, "dependency-count") # {}) <=>
         /\ dependencyPhrases(readme) # {}
         /\ phraseNumber(readme, Min(dependencyPhrases(readme)))
              # Cardinality(projectInfo.dependencies)

\* a README on which the three rules fire, the one on scripts three times
AllRulesFireWitness ==
  /\ op = "detect"
  /\ Len(result) = 5
  /\ result[1].type = "version"
  /\ result[2].type = "missing-script" /\ result[2].script = <<"t", "e", "s", "t">>
  /\ result[3].type = "missing-script" /\ result[3].script = <<"s", "t", "a", "r", "t">>
  /\ result[4].type = "missing-script" /\ result[4].script = <<"d", "e", "v">>
  /\ result[5].type = "dependency-count"

\* the version issues of detectOutdatedInfo on the README as it is now
versionIssuesNow ==
  issuesOfType(detectOutdatedInfo(analyzeExistingReadme(readmeFile), projectInfo), "version")

(***************************************************************************)
(* C29: after a version-only update of a README whose extracted version is *)
(* not null, to a project version of the form X.Y.Z, the version extracted *)
(* from the README is the project version, and detectOutdatedInfo reports  *)
(* no version issue.                                                       *)
(***************************************************************************)
VersionUpdateClearsStaleness ==
  (op = "version" /\ extractVersion(previous) # <<>> /\ IsTriple(projectInfo.version)) =>
    /\ extractVersion(readme) = projectInfo.version
    /\ versionIssuesNow = {}

\* the same for READMEs in which every v of a token vX.Y.Z starts a word and
\* every X.Y.Z after it ends one (what the code does achieve)
VersionUpdateClearsStalenessOfWords ==
  (\A i \in 1..Len(previous) :
      (occursAt(previous, i, <<"v">>) /\ tripleLength(previous, i + 1) > 0) =>
        (wordBoundary(previous, i)
           /\ wordBoundary(previous, i + 1 + tripleLength(previous, i + 1))))
    => VersionUpdateClearsStaleness

(***************************************************************************)
(* Properties of the analysis.                                             *)
(***************************************************************************)
\* the analysis of a README that exists and is empty
emptyFileAnalysis == analyzeExistingReadme([exists |-> TRUE, content |-> <<>>])

(***************************************************************************)
(* C11: for a README that does not exist, analyzeExistingReadme returns    *)
(* the distinguished value null, which is not the analysis of an empty     *)
(* file, and detectOutdatedInfo and identifySectionsToUpdate applied to    *)
(* it return the empty sequence.                                           *)
(***************************************************************************)
MissingReadmeIsNoError ==
  ~ fileExists =>
    /\ op = "analyze" => (result = null /\ result # emptyFileAnalysis)
    /\ op = "detect" => result = <<>>
    /\ op = "identify" => result = <<>>

\* the staleness detector ran on the analysis of a missing README, for a
\* project with a version, a script and a dependency
MissingReadmeWitness ==
  /\ ~ fileExists
  /\ op = "detect"
  /\ projectInfo.version # <<>>
  /\ result = <<>>

\* the sections are well formed: levels 1 to 6 and line ranges that follow
\* one another up to the last line
validSections(sections, text) ==
  /\ \A k \in DOMAIN sections :
       /\ sections[k].level \in 1..6
       /\ sections[k].startLine <= sections[k].endLine
       /\ k < Len(sections) => sections[k + 1].startLine = sections[k].endLine + 1
  /\ Len(sections) > 0 => sections[Len(sections)].endLine = Len(split(text)) - 1

\* the analysis is a valid analysis of the text
validAnalysis(analysis, text) ==
  /\ analysis.exists
  /\ analysis.content = text
  /\ validSections(analysis.sections, text)
  /\ analysis.metadata.version = <<>> \/ IsTriple(analysis.metadata.version)
  /\ analysis.metadata.hasTableOfContents \in BOOLEAN
  /\ \A k \in DOMAIN analysis.metadata.badges : analysis.metadata.badges[k].url # <<>>
  /\ \A k \in DOMAIN analysis.metadata.links :
       /\ analysis.metadata.links[k].text # <<>>
       /\ analysis.metadata.links[k].url # <<>>
  /\ \A k \in DOMAIN analysis.customSections :
       \E i \in DOMAIN analysis.sections :
         /\ analysis.sections[i].title = analysis.customSections[k].title
         /\ analysis.sections[i].startLine = analysis.customSections[k].startLine

selective(opts) == opts.preserveCustomSections /\ opts.preserveHeader

\* the title is named in the update list, titles compared normalized
listed(title, sectionsToUpdate) ==
  \E k \in DOMAIN sectionsToUpdate :
    normalizeTitle(sectionsToUpdate[k]) = normalizeTitle(title)

(***************************************************************************)
(* C12: after a selective merge, every existing section whose normalized   *)
(* title is not in the update list is in the merged text with its existing *)
(* heading and body, also a section of the standard vocabulary that the    *)
(* new document does not contain.                                          *)
(***************************************************************************)
SelectiveKeepsUnlisted ==
  (op = "merged" /\ selective(options)) =>
    \A i \in DOMAIN extractSections(previous) :
      ~ listed(extractSections(previous)[i].title, options.sectionsToUpdate) =>
        carries(readme, extractSections(previous)[i].rawTitle,
                extractSections(previous)[i].content)

\* the same for the sections that are custom or have a section of the same
\* normalized title in the new document (what the code does achieve)
SelectiveKeepsUnlistedCustomOrMatched ==
  (op = "merged" /\ selective(options)) =>
    \A i \in DOMAIN extractSections(previous) :
      (/\ ~ listed(extractSections(previous)[i].title, options.sectionsToUpdate)
       /\ \/ isCustomSection(normalizeTitle(extractSections(previous)[i].title))
          \/ normalizeTitle(extractSections(previous)[i].title)
               \in processedSectionTitles(newContent)) =>
        carries(readme, extractSections(previous)[i].rawTitle,
                extractSections(previous)[i].content)

(***************************************************************************)
(* C13: after a full merge, every existing section of level 1 or 2 that is *)
(* classified custom is in the merged text with its existing heading and   *)
(* body, whether or not the new document has a section of the same         *)
(* normalized title.                                                       *)
(***************************************************************************)
CustomSectionSurvivesFullMerge ==
  (op = "merged" /\ options = FullOptions) =>
    \A i \in DOMAIN extractSections(previous) :
      (/\ extractSections(previous)[i].level <= 2
       /\ isCustomSection(normalizeTitle(extractSections(previous)[i].title))) =>
        carries(readme, extractSections(previous)[i].rawTitle,
                extractSections(previous)[i].content)

\* the same for the custom sections without a section of the same normalized
\* title in the new document (what the code does achieve)
CustomSectionSurvivesFullMergeUnmatched ==
  (op = "merged" /\ options = FullOptions) =>
    \A i \in DOMAIN extractSections(previous) :
      (/\ extractSections(previous)[i].level <= 2
       /\ isCustomSection(normalizeTitle(extractSections(previous)[i].title))
       /\ normalizeTitle(extractSections(previous)[i].title)
            \notin processedSectionTitles(newContent)) =>
        carries(readme, extractSections(previous)[i].rawTitle,
                extractSections(previous)[i].content)

\* the existing sections that are custom and unmatched in the new document,
\* in their original order
unmatchedCustom(existingContent, generated) ==
  selectAt(extractSections(existingContent),
    {i \in DOMAIN extractSections(existingContent) :
       /\ isCustomSection(normalizeTitle(extractSections(existingContent)[i].title))
       /\ normalizeTitle(extractSections(existingContent)[i].title)
            \notin processedSectionTitles(generated)})

\* a section of the merged text shows this heading line (up to the white
\* space that ends it) and this body
shows(section, heading, body) ==
  /\ trim(section.rawTitle) = trim(heading)
  /\ section.content = body

(***************************************************************************)
(* C18: the merged document is the header blob, then one section for each  *)
(* section of the new document, in new-document order, each with the new   *)
(* or the matched existing heading and body, then the preserved custom     *)
(* sections of the existing document in their original order (none when    *)
(* custom sections are not preserved).  Heading lines are compared up to   *)
(* the white space that ends them.                                         *)
(***************************************************************************)
MergedSectionOrder ==
  op = "merged" =>
    LET merged   == extractSections(readme)
        new      == extractSections(newContent)
        existing == extractSections(previous)
        kept     == IF options.preserveCustomSections
                    THEN unmatchedCustom(previous, newContent) ELSE <<>>
        header   == IF options.preserveHeader THEN getHeaderContent(previous)
                                              ELSE getHeaderContent(newContent)
    IN  /\ Len(merged) = Len(new) + Len(kept)
        /\ \A k \in DOMAIN new :
             \/ shows(merged[k], new[k].rawTitle, new[k].content)
             \/ \E i \in DOMAIN existing :
                  /\ normalizeTitle(existing[i].title) = normalizeTitle(new[k].title)
                  /\ shows(merged[k], existing[i].rawTitle, existing[i].content)
        /\ \A k \in DOMAIN kept :
             shows(merged[Len(new) + k], kept[k].rawTitle, kept[k].content)
        /\ trim(getHeaderContent(readme)) = trim(header)

\* a merge with a header, a section of the new document and two preserved
\* custom sections behind it
MergedSectionOrderWitness ==
  /\ op = "merged"
  /\ trim(getHeaderContent(readme)) # <<>>
  /\ Len(extractSections(newContent)) >= 1
  /\ Len(unmatchedCustom(previous, newContent)) >= 2
  /\ Len(extractSections(readme)) >= 3

\* the sections of the merged text that follow those taken for the sections
\* of the new document: the appended ones
appended(merged, generated) ==
  {k \in DOMAIN extractSections(merged) : k > Len(extractSections(generated))}

\* the appended sections are existing sections that are custom and unmatched
\* (what the code does achieve)
AppendedAreCustom ==
  (op = "merged" /\ options.preserveCustomSections) =>
    \A k \in appended(readme, newContent) :
      \E i \in DOMAIN extractSections(previous) :
        /\ extractSections(previous)[i].rawTitle = extractSections(readme)[k].rawTitle
        /\ extractSections(previous)[i].content = extractSections(readme)[k].content
        /\ isCustomSection(normalizeTitle(extractSections(previous)[i].title))
        /\ normalizeTitle(extractSections(previous)[i].title)
             \notin processedSectionTitles(newContent)

(***************************************************************************)
(* C19: in a merge that preserves custom sections, no existing section of  *)
(* level 3 or deeper is appended: every appended section has level 1 or 2  *)
(* and is an existing section that is custom and unmatched in the new      *)
(* document.                                                               *)
(***************************************************************************)
AppendedAreTopLevelCustom ==
  (op = "merged" /\ options.preserveCustomSections) =>
    \A k \in appended(readme, newContent) :
      /\ extractSections(readme)[k].level <= 2
      /\ \E i \in DOMAIN extractSections(previous) :
           /\ extractSections(previous)[i].rawTitle = extractSections(readme)[k].rawTitle
           /\ extractSections(previous)[i].content = extractSections(readme)[k].content
           /\ isCustomSection(normalizeTitle(extractSections(previous)[i].title))
           /\ normalizeTitle(extractSections(previous)[i].title)
                \notin processedSectionTitles(newContent)
distinctTitleTexts(text) ==
  \A i, j \in DOMAIN extractSections(text) :
    extractSections(text)[i].title = extractSections(text)[j].title => i = j

\* how many sections of the merged text show the heading line and the body
\* of this section
timesShown(merged, section) ==
  Cardinality({k \in DOMAIN extractSections(merged) :
                 /\ trim(extractSections(merged)[k].rawTitle) = trim(section.rawTitle)
                 /\ extractSections(merged)[k].content = section.content})

(***************************************************************************)
(* C26: when the sections of the existing document have different title    *)
(* texts and the sections of the new document have different title texts,  *)
(* the merged document, for every option value, shows every existing       *)
(* section (heading and body) at most once and has no two sections with    *)
(* the same heading line.                                                  *)
(***************************************************************************)
NoSectionEmittedTwice ==
  (op = "merged" /\ distinctTitleTexts(previous) /\ distinctTitleTexts(newContent)) =>
    /\ \A i \in DOMAIN extractSections(previous) :
         timesShown(readme, extractSections(previous)[i]) <= 1
    /\ \A j, k \in DOMAIN extractSections(readme) :
         trim(extractSections(readme)[j].rawTitle) = trim(extractSections(readme)[k].rawTitle)
           => j = k

\* the same when also the normalized titles of the new document differ
\* (what the code does achieve)
NoSectionEmittedTwiceNormalized ==
  distinctTitles(newContent) => NoSectionEmittedTwice

\* the existing README has text before its first heading
hasHeaderText(text) == trim(getHeaderContent(text)) # <<>>

(***************************************************************************)
(* C27: with preserveHeader = true the merged document starts with the     *)
(* header blob of the existing document when the existing document has     *)
(* text before its first heading, and with the header blob of the new      *)
(* document when it has none.                                              *)
(***************************************************************************)
PreservedHeaderOrNewHeader ==
  (op = "merged" /\ options.preserveHeader) =>
    getHeaderContent(readme) =
      IF hasHeaderText(previous) THEN getHeaderContent(previous)
                                 ELSE getHeaderContent(newContent)

\* the same for existing documents with text before the first heading, and
\* for new documents without such text (what the code does achieve)
PreservedHeaderWhenThereIsOne ==
  (hasHeaderText(previous) \/ ~ hasHeaderText(newContent)) => PreservedHeaderOrNewHeader

(***************************************************************************)
(* C28: the classifier of the analysis and the classifier of the merge     *)
(* agree: every section listed in customSections whose normalized title is *)
(* absent from the new document is in the output of the full merge,        *)
(* heading and body, and every existing section the full merge appends as  *)
(* custom is listed in customSections.                                     *)
(***************************************************************************)
ClassifiersAgree ==
  op = "analyzed and merged" =>
    /\ \A c \in DOMAIN result.customSections :
         normalizeTitle(result.customSections[c].title) \notin processedSectionTitles(newContent)
           => \E k \in DOMAIN extractSections(readme) :
                /\ extractSections(readme)[k].title = result.customSections[c].title
                /\ extractSections(readme)[k].content = result.customSections[c].content
    /\ \A k \in appended(readme, newContent) :
         \E c \in DOMAIN result.customSections :
           /\ result.customSections[c].title = extractSections(readme)[k].title
           /\ result.customSections[c].content = extractSections(readme)[k].content

\* the same for READMEs whose sections are of level 1 or 2 and are classified
\* alike by the two vocabularies (what the code does achieve)
ClassifiersAgreeOnSharedVocabulary ==
  (\A i \in DOMAIN extractSections(previous) :
      /\ extractSections(previous)[i].level <= 2
      /\ isCustomSection(normalizeTitle(extractSections(previous)[i].title))
           <=> \E c \in DOMAIN identifyCustomSections(previous) :
                 identifyCustomSections(previous)[c].startLine
                   = extractSections(previous)[i].startLine)
    => ClassifiersAgree

(***************************************************************************)
(* Properties of the command line.                                         *)
(***************************************************************************)
\* the update mode was asked for
updateMode == hasArg(args, "-u") \/ hasArg(args, "--update-readme")

\* init has taken the plain generation
plainGenerate == op \in {"generateReadme", "generateReadme written", "generateReadme failed"}

(***************************************************************************)
(* C16: with -u or --update-readme among the arguments the run never takes *)
(* the plain generation, which overwrites README.md with the generated     *)
(* text without merging.                                                   *)
(***************************************************************************)
UpdateFlagNeverPlainGenerate == updateMode => ~ plainGenerate

\* the finer form: README.md of a run in update mode is never replaced by
\* the generated text
UpdateFlagNeverOverwrites ==
  updateMode /\ op = "generateReadme written" => readme = previous

\* the candidates of selectModel in their order: the saved model when it is
\* set and listed, then the listed preferred models
candidates ==
  (IF config.preferredModel # "" /\ config.preferredModel \in AVAILABLE_MODELS
   THEN <<config.preferredModel>> ELSE <<>>)
  \o SelectSeq(preferredModels, LAMBDA modelName : modelName \in AVAILABLE_MODELS)

\* selectModel has returned
selectModelReturned ==
  pc.at = "selected" \/ (pc.at = "exit" /\ initFlow(args) = "generateReadme")

(***************************************************************************)
(* C17: the probes made are, in order, the first candidates (the saved     *)
(* model first when it is set and listed); no probe follows one that       *)
(* succeeded; and once selectModel has returned, the model returned is the *)
(* one whose probe succeeded, or, when the probes of all candidates have   *)
(* failed, the default model, which got no further probe.                  *)
(***************************************************************************)
SelectModelProbesInOrder ==
  /\ Len(probes) <= Len(candidates)
  /\ \A k \in 1..Len(probes) : probes[k] = candidates[k]
  /\ \A k \in 1..(Len(probes) - 1) : probes[k] \notin api
  /\ selectModelReturned =>
       IF probes # <<>> /\ probes[Len(probes)] \in api
       THEN result = probes[Len(probes)]
       ELSE probes = candidates /\ result = defaultModel

\* every probe has failed, the saved model's first, and the default model is
\* returned
SelectModelFallbackWitness ==
  /\ selectModelReturned
  /\ Len(probes) = Len(preferredModels) + 1
  /\ probes[1] = config.preferredModel
  /\ \A k \in 1..Len(probes) : probes[k] \notin api
  /\ result = defaultModel

(***************************************************************************)
(* Properties of the stored configuration.                                 *)
(***************************************************************************)
\* the step is a getApiKey
getApiKeyStep ==
  op' \in {"getApiKey: saved key returned", "getApiKey: prompted, key saved",
           "getApiKey: prompted, key not saved"}

\* the step is a getApiKey that prompts
promptStep ==
  op' \in {"getApiKey: prompted, key saved", "getApiKey: prompted, key not saved"}

\* the step is readmi config -r (or --remove-key)
removeKeyStep ==
  /\ op' = "handleConfig"
  /\ Len(args') > 1
  /\ args'[2] \in {"-r", "--remove-key"}

\* what every step of getApiKey and of the config subcommand does to the key
ApiKeyStep ==
  /\ config'.apiKey # config.apiKey =>
       \/ /\ op' = "getApiKey: prompted, key saved"
          /\ config.apiKey = ""
          /\ config'.apiKey = result'
          /\ result' \in Keys
       \/ /\ removeKeyStep
          /\ config'.apiKey = ""
  /\ removeKeyStep => config'.apiKey = ""
  /\ getApiKeyStep => (promptStep <=> config.apiKey = "")
  /\ (getApiKeyStep /\ ~ promptStep) => result' = config.apiKey
  /\ op' = "getApiKey: prompted, key saved" => (result' \in Keys /\ config'.apiKey = result')
  /\ op' = "getApiKey: prompted, key not saved" => (result' \in Keys /\ config'.apiKey = "")

(***************************************************************************)
(* C24: over the sequences of getApiKey and config -r, the stored key      *)
(* changes only when getApiKey, with no key stored, stores the key entered *)
(* and confirmed, and when config -r deletes it; getApiKey prompts exactly *)
(* when no key is stored, and a key entered with saving declined is        *)
(* returned and not stored, so that the next getApiKey prompts again.      *)
(***************************************************************************)
ApiKeyChangesOnlyTwoWays == [][ApiKeyStep]_vars

\* after a config -r, getApiKey has prompted, and the key entered with saving
\* declined is returned and not stored
KeyNotStoredWitness ==
  /\ op = "getApiKey: prompted, key not saved"
  /\ runs >= 2
  /\ args = <<"config", "-r">>
  /\ result \in Keys
  /\ config.apiKey = ""

(***************************************************************************)
(* updateReadme: what is written to README.md, and when.                   *)
(***************************************************************************)
\* C23: in updateReadme with the choice full or selective, README.md is
\* written at most once, and only after the model has returned a non-empty
\* answer and the merge is done: the text written is the merged text.
\* While the model is awaited, and when the model call threw or returned
\* the empty answer, updateReadme has written nothing and README.md holds
\* the text it held when the call began; in the two failing cases
\* updateReadme throws.
ReadmeWrittenOnceAfterMerge ==
  updateChoice \in {"full", "selective"} =>
    /\ Len(writes) <= 1
    /\ pc.at \in {"awaiting model", "threw"} => writes = <<>> /\ readme = previous
    /\ pc.at = "threw" => op = "README update failed"
    /\ writes # <<>> =>
         /\ pc.at = "returned"
         /\ newContent # <<>>
         /\ writes[1] = finalContent(updateChoice, previous, postProcessReadme(newContent))
         /\ readme = writes[1]

\* the model returned the empty answer to an update of a README that the
\* update would have changed: updateReadme threw and the README is as before
EmptyAnswerKeepsReadmeWitness ==
  /\ updateChoice \in {"full", "selective"}
  /\ pc.at = "threw"
  /\ newContent = <<>>
  /\ runs = 2
  /\ readme = previous
  /\ \E text \in GeneratedTexts \ {<<>>} :
       finalContent(updateChoice, previous, postProcessReadme(text)) # readme

\* how many times the footer occurs in a text
footerCount(text) == Cardinality({i \in 1..Len(text) : occursAt(text, i, footerText)})

\* a heading line comes after a line of the footer
sectionFollowsFooter(text) ==
  \E k, m \in DOMAIN split(text) :
    /\ k < m
    /\ occursAt(split(text)[k], 1, <<"*", "*", "M", "a", "d", "e">>)
    /\ headerMatches(split(text)[m])

\* every update so far was a full update that wrote the README
onlyFullUpdates ==
  /\ pc.at = "returned"
  /\ console # <<>>
  /\ Len(console) = runs
  /\ \A i \in DOMAIN console : console[i] = "README updated"

\* C30: after any sequence of full updates the footer occurs exactly once
\* in the written README and no section follows it.
FooterOnceAndLast ==
  onlyFullUpdates => footerCount(readme) = 1 /\ ~sectionFollowsFooter(readme)

\* what the code does achieve: the footer is there, and it is the end of the
\* processed answer of the model, whatever the merge appends after it
FooterEndsProcessedAnswer ==
  onlyFullUpdates =>
    /\ footerCount(readme) >= 1
    /\ footerCount(postProcessReadme(newContent)) = 1
    /\ occursAt(postProcessReadme(newContent),
                Len(postProcessReadme(newContent)) - Len(footer) + 1, footer)

\* the footer is once in the README and last in it when the README before
\* the update had no custom section that the answer of the model lacks
FooterOnceAndLastWithoutCustomSections ==
  (onlyFullUpdates /\ preservedCustomSections(previous, postProcessReadme(newContent)) = <<>>)
    => footerCount(readme) = 1 /\ ~sectionFollowsFooter(readme)

====
